---- MODULE Spec2Model ----
(***************************************************************************)
(* A model of cosmostrix: the dirty-cell Frame (src/src/frame.rs), the     *)
(* rain orchestrator Cloud (src/src/cloud.rs) and the differential         *)
(* renderer Terminal (src/src/terminal.rs).                                *)
(*                                                                         *)
(* Each Rust object is one record-valued variable; each method is an       *)
(* operator from the object (and its arguments) to the object after the    *)
(* call, and each action applies one public method.  Instant values are    *)
(* integers (time units), Option<T> is "None" or the value (NoIndex for    *)
(* an Option<usize>), random draws are arguments chosen with \E.           *)
(***************************************************************************)
EXTENDS Integers, Sequences, FiniteSets, TLC

VARIABLES
    frame,      \* the Frame (frame.rs:6-16)
    snap,       \* ghost: effective cell values at the latest clear_dirty
    wr,         \* ghost: cell indices set since the latest clear_with_bg
    cbg,        \* ghost: the background of the latest clear_with_bg / new
    op,         \* ghost: the latest call and its arguments
    cloud,      \* the Cloud (cloud.rs:178-251)
    now,        \* the monotonic clock read by Instant::now()
    term,       \* the Terminal (terminal.rs:40-46)
    tally,      \* ghost: counts of spawn attempts, spawns and calls so far
    main        \* the locals of main (main.rs:995-1016) and the terminal's modes

vars == <<frame, snap, wr, cbg, op, cloud, now, term, tally, main>>

(***************************************************************************)
(* Bounds of the model.                                                    *)
(***************************************************************************)
\* SpecFrame: the largest frame width (frames of one row).
MaxFrameW == 1
\* The modulus of the generation counter.  The code's counter is a u32
\* (modulus 2^32, more than TLC's integers hold); the model keeps the
\* wrap-around (wrapping_add, frame.rs:38-42) at a narrower width.
GenMod == 3

(***************************************************************************)
(* Cell (cell.rs)                                                          *)
(***************************************************************************)
None == "None"

blank_with_bg(bg) == [ch |-> " ", fg |-> None, bg |-> bg, bold |-> FALSE]

\* Backgrounds a palette can carry, and the cells the Frame actions write.
BgVals == {None, "Black"}
GlyphX == [ch |-> "x", fg |-> "Green", bg |-> None, bold |-> TRUE]
CellVals == {blank_with_bg(bg) : bg \in BgVals} \cup {GlyphX}

(***************************************************************************)
(* Frame (frame.rs)                                                        *)
(***************************************************************************)
NoIndex == 0 - 1

Frame_new(width, height, bg) ==
    LET len == width * height
        blank == blank_with_bg(bg)
    IN  [width |-> width, height |-> height,
         cells |-> [i \in 0..(len - 1) |-> blank],
         gen |-> 1,
         cell_gen |-> [i \in 0..(len - 1) |-> 1],
         blank |-> blank,
         dirty_all |-> TRUE,
         dirty_map |-> [i \in 0..(len - 1) |-> FALSE],
         dirty |-> << >>]

\* Mutant: the wrap-around zeroes the stamps and leaves the counter at 0.
Frame_clear_with_bg_ZeroGen(f, bg) ==
    LET g == (f.gen + 1) % GenMod
    IN  [f EXCEPT !.blank = blank_with_bg(bg),
                  !.gen = g,
                  !.cell_gen = IF g = 0 THEN [i \in DOMAIN f.cell_gen |-> 0]
                                        ELSE f.cell_gen,
                  !.dirty_all = TRUE,
                  !.dirty = << >>]

\* Mutant: the wrap-around restarts the counter and keeps the old stamps.
Frame_clear_with_bg_KeepStamps(f, bg) ==
    LET g == (f.gen + 1) % GenMod
    IN  [f EXCEPT !.blank = blank_with_bg(bg),
                  !.gen = IF g = 0 THEN 1 ELSE g,
                  !.dirty_all = TRUE,
                  !.dirty = << >>]

Frame_clear_with_bg(f, bg) ==
    LET g == (f.gen + 1) % GenMod
    IN  [f EXCEPT !.blank = blank_with_bg(bg),
                  !.gen = IF g = 0 THEN 1 ELSE g,
                  !.cell_gen = IF g = 0 THEN [i \in DOMAIN f.cell_gen |-> 0]
                                        ELSE f.cell_gen,
                  !.dirty_all = TRUE,
                  !.dirty = << >>]

Frame_is_dirty_all(f) == f.dirty_all

Frame_dirty_indices(f) == f.dirty

Frame_clear_dirty(f) ==
    IF f.dirty_all
    THEN [f EXCEPT !.dirty_all = FALSE,
                   !.dirty_map = [i \in DOMAIN f.dirty_map |-> FALSE],
                   !.dirty = << >>]
    ELSE [f EXCEPT !.dirty_map =
                       [i \in DOMAIN f.dirty_map |->
                           IF \E k \in 1..Len(f.dirty) : f.dirty[k] = i
                           THEN FALSE ELSE f.dirty_map[i]],
                   !.dirty = << >>]

Frame_index(f, x, y) ==
    IF x >= f.width \/ y >= f.height THEN NoIndex ELSE y * f.width + x

Frame_cell_at_index(f, i) ==
    IF i \in DOMAIN f.cell_gen /\ f.cell_gen[i] = f.gen
    THEN f.cells[i] ELSE f.blank

Frame_get(f, x, y) ==
    LET i == Frame_index(f, x, y)
    IN  IF i = NoIndex THEN None ELSE Frame_cell_at_index(f, i)

\* Mutant: a changed cell is flagged in dirty_map and never pushed.
Frame_set_NoPush(f, x, y, cell) ==
    LET i == Frame_index(f, x, y)
    IN  IF i = NoIndex THEN f
        ELSE IF Frame_cell_at_index(f, i) = cell THEN f
        ELSE LET g == [f EXCEPT !.cells[i] = cell, !.cell_gen[i] = f.gen]
             IN  IF ~f.dirty_all /\ f.dirty_map[i] = FALSE
                 THEN [g EXCEPT !.dirty_map[i] = TRUE]
                 ELSE g

\* Mutant: a changed cell is pushed without consulting dirty_map.
Frame_set_NoMap(f, x, y, cell) ==
    LET i == Frame_index(f, x, y)
    IN  IF i = NoIndex THEN f
        ELSE IF Frame_cell_at_index(f, i) = cell THEN f
        ELSE LET g == [f EXCEPT !.cells[i] = cell, !.cell_gen[i] = f.gen]
             IN  IF ~f.dirty_all
                 THEN [g EXCEPT !.dirty_map[i] = TRUE,
                                !.dirty = Append(f.dirty, i)]
                 ELSE g

\* Mutant: no compare-before-write.
Frame_set_NoCompare(f, x, y, cell) ==
    LET i == Frame_index(f, x, y)
    IN  IF i = NoIndex THEN f
        ELSE LET g == [f EXCEPT !.cells[i] = cell, !.cell_gen[i] = f.gen]
             IN  IF ~f.dirty_all /\ f.dirty_map[i] = FALSE
                 THEN [g EXCEPT !.dirty_map[i] = TRUE,
                                !.dirty = Append(f.dirty, i)]
                 ELSE g

Frame_set(f, x, y, cell) ==
    LET i == Frame_index(f, x, y)
    IN  IF i = NoIndex THEN f
        ELSE IF Frame_cell_at_index(f, i) = cell THEN f
        ELSE LET g == [f EXCEPT !.cells[i] = cell, !.cell_gen[i] = f.gen]
             IN  IF ~f.dirty_all /\ f.dirty_map[i] = FALSE
                 THEN [g EXCEPT !.dirty_map[i] = TRUE,
                                !.dirty = Append(f.dirty, i)]
                 ELSE g

\* What every cell reads back as (cell_at_index over the whole grid).
Effective(f) == [i \in DOMAIN f.cells |-> Frame_cell_at_index(f, i)]

(***************************************************************************)
(* Numbers.  Instants and Durations are whole milliseconds.  An f32 count  *)
(* of droplets (the spawn budget, spawn_remainder, and droplets_per_sec    *)
(* per second) is a whole number of 1/FP droplets; a fraction in [0, 1]    *)
(* (perf_pressure, the percentages, the column speed fraction) and the     *)
(* density are in hundredths; chars_per_sec is in rows per second.         *)
(***************************************************************************)
Min(a, b) == IF a <= b THEN a ELSE b
Max(a, b) == IF a >= b THEN a ELSE b
SatSub(a, b) == IF a >= b THEN a - b ELSE 0
Clamp(v, lo, hi) == Max(lo, Min(v, hi))

FP == 4800
U16Max == 65535
NoTime == 0 - 1
NoLine == 0 - 1

\* The values a Uniform::new_inclusive(lo, hi) can yield.
Range(lo, hi) == [lo |-> lo, hi |-> hi]
Samples(r) == r.lo .. r.hi

(***************************************************************************)
(* Palette (palette.rs): the 16-colour and monochrome palettes of three    *)
(* schemes.                                                                *)
(***************************************************************************)
build_palette(scheme, mode, default_background) ==
    [colors |->
        IF mode = "Mono" THEN <<"White">>
        ELSE CASE scheme = "Green" -> <<"DarkGreen", "Green">>
               [] scheme = "Green2" ->
                      <<"DarkGrey", "DarkGreen", "Green", "White">>
               [] OTHER -> <<"DarkGreen", "White">>,
     bg |-> IF default_background THEN None ELSE "Black"]

(***************************************************************************)
(* Droplet.  src/src/droplet.rs is not among the sources: the fields are   *)
(* the ones cloud.rs reads and writes, the methods follow the              *)
(* specification's section 4.1.                                            *)
(***************************************************************************)
Droplet_new ==
    [is_alive |-> FALSE, bound_col |-> U16Max, end_line |-> 0,
     char_pool_idx |-> 0, length |-> 0, chars_per_sec |-> 0,
     time_to_linger |-> 0, head_put_line |-> 0, head_cur_line |-> 0,
     tail_put_line |-> NoLine, tail_cur_line |-> 0,
     head_stop_time |-> NoTime, last_time |-> NoTime]

Droplet_activate(d, t) == [d EXCEPT !.is_alive = TRUE, !.last_time = t]

Droplet_increment_time(d, elapsed) ==
    [d EXCEPT !.last_time = IF @ = NoTime THEN @ ELSE @ + elapsed,
              !.head_stop_time = IF @ = NoTime THEN @ ELSE @ + elapsed]

\* advance(now, lines): the head falls elapsed * chars_per_sec rows, clamped
\* to the stop row; lingering starts when the head reaches the stop row; the
\* tail trails the falling head by length rows and, once the linger time has
\* elapsed, catches up with the halted head; the droplet is dead when it
\* has.  The result free_col is not determined by the specification: free
\* is either boolean.
Droplet_advance(d, t, lines, free) ==
    LET elapsed == IF d.last_time = NoTime THEN 0 ELSE SatSub(t, d.last_time)
        n == (elapsed * d.chars_per_sec) \div 1000
        head == Min(d.head_cur_line + n, d.end_line)
        stop == IF d.head_stop_time = NoTime /\ head >= d.end_line
                THEN t ELSE d.head_stop_time
        lingered == stop # NoTime /\ t - stop >= d.time_to_linger
        tail == IF lingered THEN Min(d.tail_cur_line + n, head)
                ELSE IF head > d.length
                     THEN Max(d.tail_cur_line, head - d.length)
                     ELSE d.tail_cur_line
    IN  [d |-> [d EXCEPT !.head_cur_line = head,
                         !.tail_cur_line = tail,
                         !.head_stop_time = stop,
                         !.last_time = IF n > 0 THEN t ELSE @,
                         !.is_alive = ~(lingered /\ tail >= head)],
         free_col |-> free]

(***************************************************************************)
(* Cloud (cloud.rs)                                                        *)
(***************************************************************************)
NoText == [some |-> FALSE, lines |-> << >>]
SomeText(ls) == [some |-> TRUE, lines |-> ls]

\* The lengths of char_pool and glitch_pool, 2048 and 1024 in the code.
CharPoolLen == 1
GlitchPoolLen == 1

\* Cloud::new.
Cloud_new(color_mode, full_width, shading_mode, bold_mode, async_mode, default_background, color_scheme, t) ==
    [lines |-> 25, cols |-> 80,
     palette |-> build_palette(color_scheme, color_mode, default_background),
     color_mode |-> color_mode,
     full_width |-> full_width,
     shading_distance |-> shading_mode = "DistanceFromHead",
     bold_mode |-> bold_mode,
     async_mode |-> async_mode,
     raining |-> TRUE,
     pause |-> FALSE,
     droplet_density |-> 100,
     droplets_per_sec |-> 5 * FP,
     chars_per_sec |-> 8,
     glitchy |-> TRUE,
     glitch_pct |-> 10,
     short_pct |-> 50,
     die_early_pct |-> 33,
     max_droplets_per_column |-> 3,
     droplets |-> << >>,
     num_droplets |-> 0,
     char_pool |-> << >>,
     glitch_pool |-> << >>,
     glitch_pool_idx |-> 0,
     glitch_map |-> << >>,
     color_map |-> << >>,
     col_stat |-> << >>,
     rand_line |-> Range(0, 23),
     rand_cpidx |-> Range(0, CharPoolLen - 1),
     rand_len |-> Range(1, 23),
     rand_col |-> Range(0, 79),
     rand_glitch_ms |-> Range(300, 400),
     rand_linger_ms |-> Range(1, 3000),
     rand_speed |-> Range(33, 100),
     last_glitch_time |-> t,
     next_glitch_time |-> t + 300,
     last_spawn_time |-> t,
     spawn_remainder |-> 0,
     pause_time |-> NoTime,
     force_draw_everything |-> FALSE,
     perf_pressure |-> 0,
     max_sim_delta |-> 0,
     shading_mode |-> shading_mode,
     message |-> << >>,
     message_text |-> NoText,
     message_border |-> TRUE,
     color_scheme |-> color_scheme,
     default_background |-> default_background]

Cloud_set_glitch_times(c, low_ms, high_ms) ==
    [c EXCEPT !.rand_glitch_ms =
        Range(Min(low_ms, high_ms), Max(low_ms, high_ms))]

Cloud_set_linger_times(c, low_ms, high_ms) ==
    [c EXCEPT !.rand_linger_ms =
        Range(Min(low_ms, high_ms), Max(low_ms, high_ms))]

\* init_chars: the pools are filled with samples of chars, an empty chars
\* being replaced by <<"0", "1">>; pool and gpool are the outcomes.
Cloud_init_chars(c, pool, gpool) ==
    [c EXCEPT !.char_pool = pool, !.glitch_pool = gpool,
              !.glitch_pool_idx = 0]

Pools(chars, n) ==
    LET cs == IF chars = << >> THEN <<"0", "1">> ELSE chars
    IN  [1..n -> {cs[i] : i \in DOMAIN cs}]

Cloud_set_max_droplets_per_column(c, v) ==
    [c EXCEPT !.max_droplets_per_column = v]

Cloud_set_perf_pressure(c, p) == [c EXCEPT !.perf_pressure = Clamp(p, 0, 100)]

Cloud_set_max_sim_delta(c, d) == [c EXCEPT !.max_sim_delta = d]

Cloud_force_draw_everything(c) == [c EXCEPT !.force_draw_everything = TRUE]

Cloud_set_shading_mode(c, sm) ==
    [c EXCEPT !.shading_mode = sm,
              !.shading_distance = (sm = "DistanceFromHead"),
              !.force_draw_everything = TRUE]

\* The f32 values a division by 0.0 yields: x / 0.0 with x > 0, and
\* 0.0 / 0.0.
F32Inf == 0 - 1
F32NaN == 0 - 2

\* droplets_per_sec = cols * density / (lines / max(chars_per_sec, 0.001)).
\* With no line the divisor is 0.0.
Cloud_recalc_droplets_per_sec(c) ==
    [c EXCEPT !.droplets_per_sec =
        IF c.lines = 0
        THEN IF c.cols * c.droplet_density > 0 THEN F32Inf ELSE F32NaN
        ELSE (c.cols * c.droplet_density * Max(c.chars_per_sec, 1)
                  * (FP \div 100)) \div c.lines]

\* fill_glitch_map: gm is the outcome of the lines * cols samples.
Cloud_fill_glitch_map(c, gm) ==
    IF ~c.glitchy THEN [c EXCEPT !.glitch_map = << >>]
    ELSE [c EXCEPT !.glitch_map = gm]

\* The glitch maps the samples can yield: sample <= glitch_pct, a sample
\* being in [0, 1).
GlitchMaps(c, lines, cols) ==
    IF ~c.glitchy THEN {<< >>}
    ELSE [0..(lines * cols - 1) ->
             IF c.glitch_pct >= 100 THEN {TRUE}
             ELSE IF c.glitch_pct <= 0 THEN {FALSE} ELSE BOOLEAN]

\* Mutant: the color map is not resized and keeps its old entries.
Cloud_fill_color_map_Keep(c, cm) == c

\* fill_color_map: cm is the outcome of the lines * cols samples.
Cloud_fill_color_map(c, cm) == [c EXCEPT !.color_map = cm]

ColorRange(palette) ==
    LET n == Max(Len(palette.colors), 1)
    IN  IF n <= 2 THEN Range(0, 0)
        ELSE IF n = 3 THEN Range(1, 1) ELSE Range(1, n - 2)

ColorMaps(palette, lines, cols) ==
    [0..(lines * cols - 1) -> Samples(ColorRange(palette))]

Cloud_set_column_spawn(c, col, b) ==
    IF col \in DOMAIN c.col_stat
    THEN [c EXCEPT !.col_stat[col].can_spawn = b] ELSE c

\* set_column_speeds: sp is the outcome of the per-column samples.
Cloud_set_column_speeds(c, sp) ==
    [c EXCEPT !.col_stat =
        [i \in DOMAIN c.col_stat |->
            [c.col_stat[i] EXCEPT !.max_speed_pct =
                IF c.async_mode THEN sp[i] ELSE 100]]]

ColumnSpeeds(c, cols) ==
    [0..(cols - 1) -> IF c.async_mode THEN {c.rand_speed.lo, c.rand_speed.hi}
                      ELSE {100}]

Cloud_update_droplet_speeds(c) ==
    [c EXCEPT !.droplets =
        [i \in DOMAIN c.droplets |->
            LET d == c.droplets[i]
            IN  IF d.is_alive /\ d.bound_col \in DOMAIN c.col_stat
                THEN [d EXCEPT !.chars_per_sec =
                         (c.col_stat[d.bound_col].max_speed_pct
                              * c.chars_per_sec) \div 100]
                ELSE d]]

Cloud_set_glitch_pct(c, pct, gm) ==
    Cloud_fill_glitch_map([c EXCEPT !.glitch_pct = pct], gm)

Cloud_set_chars_per_sec(c, cps, sp) ==
    Cloud_update_droplet_speeds(
        Cloud_set_column_speeds(
            Cloud_recalc_droplets_per_sec([c EXCEPT !.chars_per_sec = cps]),
            sp))

Cloud_set_droplet_density(c, density) ==
    Cloud_recalc_droplets_per_sec([c EXCEPT !.droplet_density = density])

Cloud_time_for_glitch(c, t) == c.glitchy /\ t >= c.next_glitch_time

Cloud_is_glitched(c, line, col) ==
    IF ~c.glitchy THEN FALSE
    ELSE LET idx == col * c.lines + line
         IN  IF idx \in DOMAIN c.glitch_map THEN c.glitch_map[idx] ELSE FALSE

(***************************************************************************)
(* The message overlay                                                     *)
(***************************************************************************)
MsgChr(line, col, val) == [line |-> line, col |-> col, val |-> val]

\* chars.chunks(w)
Chunks(chars, w) ==
    [k \in 1..((Len(chars) + w - 1) \div w) |->
        SubSeq(chars, (k - 1) * w + 1, Min(k * w, Len(chars)))]

\* The chunks of every raw line, an empty raw line giving one empty chunk.
RECURSIVE WrapLines(_, _)
WrapLines(raw, w) ==
    IF raw = << >> THEN << >>
    ELSE (IF Head(raw) = << >> THEN << << >> >> ELSE Chunks(Head(raw), w))
             \o WrapLines(Tail(raw), w)

\* Mutant: the minimum size of the message box leaves out the padding.
min_box_BorderOnly(border, pad) == Max(2 * border, 1)

\* Mutant: the message box has no minimum size.
min_box_None(border, pad) == 0

\* min_box_w and min_box_h: the border and the padding on either side.
min_box(border, pad) == Max(2 * border + 2 * pad, 1)

Cloud_reset_message(c) ==
    IF ~c.message_text.some THEN c
    ELSE
    LET pad_x == 2
        pad_y == 1
        border == IF c.message_border THEN 1 ELSE 0
        min_box_w == min_box(border, pad_x)
        min_box_h == min_box(border, pad_y)
    IN  IF c.cols < min_box_w \/ c.lines < min_box_h
        THEN [c EXCEPT !.message = << >>]
        ELSE
        LET max_content_w == Max(SatSub(SatSub(c.cols, 2 * border), 2 * pad_x), 1)
            max_content_h == Max(SatSub(SatSub(c.lines, 2 * border), 2 * pad_y), 1)
            wrapped == WrapLines(c.message_text.lines, max_content_w)
            taken == SubSeq(wrapped, 1, Min(Len(wrapped), max_content_h))
            content_lines == IF taken = << >> THEN << << >> >> ELSE taken
            Widest[k \in 0..Len(content_lines)] ==
                IF k = 0 THEN 1
                ELSE Max(Widest[k - 1],
                         Min(Len(content_lines[k]), max_content_w))
            content_w == Widest[Len(content_lines)]
            content_h == Min(Len(content_lines), max_content_h)
            box_w == content_w + 2 * border + 2 * pad_x
            box_h == content_h + 2 * border + 2 * pad_y
            start_col == (c.cols \div 2) - (box_w \div 2)
            start_line == (c.lines \div 2) - (box_h \div 2)
            content_start_y == border + pad_y
            content_start_x == border + pad_x
            Glyph(x, y) ==
                LET is_top == y = 0
                    is_bottom == y + 1 = box_h
                    is_left == x = 0
                    is_right == x + 1 = box_w
                    frame_ch ==
                        IF border # 1 THEN " "
                        ELSE IF (is_top \/ is_bottom) /\ (is_left \/ is_right)
                             THEN "+"
                        ELSE IF is_top \/ is_bottom THEN "-"
                        ELSE IF is_left \/ is_right THEN "|" ELSE " "
                    inner_y == y - content_start_y
                    inner_x == x - content_start_x
                IN  IF /\ y >= content_start_y
                       /\ y < content_start_y + content_h
                       /\ x >= content_start_x
                       /\ x < content_start_x + content_w
                       /\ inner_y + 1 \in DOMAIN content_lines
                    THEN LET line_chars == content_lines[inner_y + 1]
                             line_len == Min(Len(line_chars), content_w)
                             left_pad == SatSub(content_w, line_len) \div 2
                         IN  IF inner_x >= left_pad
                                /\ inner_x < left_pad + line_len
                             THEN line_chars[inner_x - left_pad + 1]
                             ELSE frame_ch
                    ELSE frame_ch
            all == [k \in 1..(box_h * box_w) |->
                       LET y == (k - 1) \div box_w
                           x == (k - 1) % box_w
                       IN  MsgChr(start_line + y, start_col + x, Glyph(x, y))]
            InGrid(mc) == mc.line < c.lines /\ mc.col < c.cols
        IN  [c EXCEPT !.message = SelectSeq(all, InGrid)]

Cloud_set_message(c, msg) ==
    Cloud_reset_message([c EXCEPT !.message_text = msg,
                                  !.force_draw_everything = TRUE])

Cloud_set_message_border(c, on) ==
    IF c.message_text.some
    THEN [Cloud_reset_message([c EXCEPT !.message_border = on]) EXCEPT
             !.force_draw_everything = TRUE]
    ELSE [c EXCEPT !.message_border = on]

(***************************************************************************)
(* reset.  rnd holds the outcomes of the reset's random samples: the       *)
(* glitch map, the colour map, the column speeds and the time to the next  *)
(* glitch.                                                                 *)
(***************************************************************************)
\* (1.5 * cols).round()
PoolSize(cols) == (3 * cols + 1) \div 2

Cloud_reset(c, cols, lines, t, rnd) ==
    LET max_line == SatSub(lines, 2)
        max_len == Max(max_line, 1)
        c1 == [c EXCEPT !.cols = cols,
                        !.lines = lines,
                        !.num_droplets = PoolSize(cols),
                        !.droplets = [i \in 1..PoolSize(cols) |-> Droplet_new],
                        !.rand_line = Range(0, max_line),
                        !.rand_len = Range(1, max_len),
                        !.rand_col = Range(0, SatSub(cols, 1)),
                        !.rand_cpidx = Range(0, CharPoolLen - 1)]
        c2 == Cloud_recalc_droplets_per_sec(c1)
        c3 == [c2 EXCEPT !.col_stat =
                  [i \in 0..(cols - 1) |->
                      [max_speed_pct |-> 100, num_droplets |-> 0,
                       can_spawn |-> TRUE]]]
        c4 == Cloud_fill_glitch_map(c3, rnd.glitch_map)
        c5 == Cloud_fill_color_map(c4, rnd.color_map)
        c6 == Cloud_set_column_speeds(c5, rnd.speeds)
        c7 == Cloud_update_droplet_speeds(c6)
        c8 == IF c7.message_text.some THEN Cloud_reset_message(c7) ELSE c7
    IN  [c8 EXCEPT !.last_glitch_time = t,
                   !.next_glitch_time = t + rnd.glitch_ms,
                   !.last_spawn_time = t,
                   !.spawn_remainder = 0,
                   !.force_draw_everything = TRUE]

ResetDraws(c, cols, lines) ==
    [glitch_map : GlitchMaps(c, lines, cols),
     color_map : ColorMaps(c.palette, lines, cols),
     speeds : ColumnSpeeds(c, cols),
     glitch_ms : Samples(c.rand_glitch_ms)]

Cloud_set_color_scheme(c, scheme, cm) ==
    Cloud_fill_color_map(
        [c EXCEPT !.color_scheme = scheme,
                  !.palette = build_palette(scheme, c.color_mode,
                                            c.default_background),
                  !.force_draw_everything = TRUE], cm)

\* Mutant: unpausing shifts no clock.
Cloud_toggle_pause_NoShift(c, t) ==
    IF ~c.pause
    THEN [c EXCEPT !.pause = TRUE, !.pause_time = t]
    ELSE [c EXCEPT !.pause = FALSE, !.pause_time = NoTime]

Cloud_toggle_pause(c, t) ==
    IF ~c.pause
    THEN [c EXCEPT !.pause = TRUE, !.pause_time = t]
    ELSE IF c.pause_time # NoTime
         THEN LET elapsed == SatSub(t, c.pause_time)
              IN  [c EXCEPT !.pause = FALSE,
                            !.pause_time = NoTime,
                            !.last_spawn_time = @ + elapsed,
                            !.droplets =
                                [i \in DOMAIN c.droplets |->
                                    IF c.droplets[i].is_alive
                                    THEN Droplet_increment_time(c.droplets[i],
                                                                elapsed)
                                    ELSE c.droplets[i]]]
         ELSE [c EXCEPT !.pause = FALSE]

(***************************************************************************)
(* Spawning                                                                *)
(***************************************************************************)
\* The outcomes of fill_droplet's samples.  A sample of rand_chance is in
\* [0, 1): it can be at most any percentage, and can exceed one below 100.
FillDraws(c) ==
    LET end_lines == (IF c.die_early_pct < 100 THEN {SatSub(c.lines, 1)} ELSE {})
                         \cup (IF c.die_early_pct >= 0 THEN Samples(c.rand_line)
                               ELSE {})
        lens == (IF c.short_pct < 100 THEN {c.lines} ELSE {})
                    \cup (IF c.short_pct >= 0 THEN Samples(c.rand_len) ELSE {})
    IN  {r \in [end_line : end_lines,
                cp_idx : Samples(c.rand_cpidx),
                len : lens,
                ttl : {1} \cup Samples(c.rand_linger_ms)] :
            IF r.end_line <= r.len THEN r.ttl \in Samples(c.rand_linger_ms)
            ELSE r.ttl = 1}

\* Mutant: the tail starts length rows down.
Cloud_fill_droplet_TailAtLength(c, d, col, r) ==
    [d EXCEPT !.bound_col = col,
              !.end_line = r.end_line,
              !.char_pool_idx = r.cp_idx,
              !.length = r.len,
              !.chars_per_sec =
                  ((IF col \in DOMAIN c.col_stat
                    THEN c.col_stat[col].max_speed_pct ELSE 100)
                       * c.chars_per_sec) \div 100,
              !.time_to_linger = r.ttl,
              !.head_put_line = 0,
              !.head_cur_line = 0,
              !.tail_put_line = NoLine,
              !.tail_cur_line = r.len,
              !.head_stop_time = NoTime]

Cloud_fill_droplet(c, d, col, r) ==
    [d EXCEPT !.bound_col = col,
              !.end_line = r.end_line,
              !.char_pool_idx = r.cp_idx,
              !.length = r.len,
              !.chars_per_sec =
                  ((IF col \in DOMAIN c.col_stat
                    THEN c.col_stat[col].max_speed_pct ELSE 100)
                       * c.chars_per_sec) \div 100,
              !.time_to_linger = r.ttl,
              !.head_put_line = 0,
              !.head_cur_line = 0,
              !.tail_put_line = NoLine,
              !.tail_cur_line = 0,
              !.head_stop_time = NoTime]

\* Mutant: the elapsed time is not capped.
spawn_elapsed_Uncapped(c, t) == SatSub(t, c.last_spawn_time)

\* The elapsed time spawn_droplets uses.
spawn_elapsed(c, t) ==
    LET elapsed == SatSub(t, c.last_spawn_time)
    IN  IF c.max_sim_delta > 0 THEN Min(elapsed, c.max_sim_delta) ELSE elapsed

\* scale is in 1/ScaleDen.
ScaleDen == 400

\* Mutant: the carried remainder is left out of the budget.
spawn_budget_NoRemainder(c, t, scale) ==
    Max((((spawn_elapsed(c, t) * c.droplets_per_sec) \div 1000) * scale)
            \div ScaleDen, 0)

\* (elapsed_sec * droplets_per_sec * scale).max(0.0): 0.0 * inf is NaN, and
\* NaN.max(0.0) is 0.0.
spawn_rate(c, t, scale) ==
    IF c.droplets_per_sec = F32NaN THEN 0
    ELSE IF c.droplets_per_sec = F32Inf
    THEN IF spawn_elapsed(c, t) > 0 /\ scale > 0 THEN F32Inf ELSE 0
    ELSE Max((((spawn_elapsed(c, t) * c.droplets_per_sec) \div 1000) * scale)
                 \div ScaleDen, 0)

spawn_budget(c, t, scale) ==
    IF spawn_rate(c, t, scale) = F32Inf \/ c.spawn_remainder = F32Inf
    THEN F32Inf
    ELSE spawn_rate(c, t, scale) + c.spawn_remainder

\* (budget.floor() as usize).min(num_droplets): the cast saturates.
to_spawn(c, t, scale) ==
    IF spawn_budget(c, t, scale) = F32Inf THEN c.num_droplets
    ELSE Min(spawn_budget(c, t, scale) \div FP, c.num_droplets)

\* Mutant: the scan takes the slot at idx, live or not.
FreeSlot_Any(c, idx) == IF idx \in DOMAIN c.droplets THEN idx ELSE 0

\* The first slot at or after idx that holds no live droplet, 0 if none.
FreeSlot(c, idx) ==
    LET free == {i \in DOMAIN c.droplets : i >= idx /\ ~c.droplets[i].is_alive}
    IN  IF free = {} THEN 0 ELSE CHOOSE i \in free : \A j \in free : i <= j

\* Mutant: the per-column cap is not consulted.
ColumnOpen_NoCap(c, col) == c.col_stat[col].can_spawn

ColumnOpen(c, col) ==
    /\ c.col_stat[col].can_spawn
    /\ c.col_stat[col].num_droplets < c.max_droplets_per_column

\* Mutant: the sampled column is taken as it is.
spawn_col_NoMask(c, col) == col

\* The column of an attempt: col &= 0xFFFE in full-width mode.
spawn_col(c, col) == IF c.full_width THEN (col \div 2) * 2 ELSE col

\* Mutant: the spawn is counted and the column stays open.
column_spawned_Open(c, col) ==
    [c EXCEPT !.col_stat[col].num_droplets = @ + 1]

\* The bookkeeping of a spawn into column col: the column is closed and
\* its count raised.
column_spawned(c, col) ==
    [c EXCEPT !.col_stat[col].can_spawn = FALSE,
              !.col_stat[col].num_droplets = @ + 1]

\* One attempt of spawn_droplets' loop, draw holding its samples: the cloud
\* and the scan index after it, and whether it leaves the loop.
spawn_attempt(c, t, draw, idx) ==
    LET col == spawn_col(c, draw.col)
        di == FreeSlot(c, idx)
    IN  IF col \notin DOMAIN c.col_stat \/ ~ColumnOpen(c, col)
        THEN [cloud |-> c, idx |-> idx, brk |-> FALSE]
        ELSE IF di = 0
        THEN [cloud |-> c, idx |-> idx, brk |-> TRUE]
        ELSE [cloud |-> column_spawned(
                            [c EXCEPT !.droplets[di] =
                                Droplet_activate(
                                    Cloud_fill_droplet(c, c.droplets[di],
                                                       col, draw.fill),
                                    t)],
                            col),
              idx |-> di, brk |-> FALSE]

\* The attempts k..Len(draws); a is the outcome of attempt k.
RECURSIVE spawn_attempts(_, _, _, _, _)
spawn_attempts_from(a, t, draws, k) ==
    IF a.brk THEN a.cloud ELSE spawn_attempts(a.cloud, t, draws, k + 1, a.idx)

spawn_attempts(c, t, draws, k, idx) ==
    IF k > Len(draws) THEN c
    ELSE spawn_attempts_from(spawn_attempt(c, t, draws[k], idx), t, draws, k)

Cloud_spawn_droplets(c, t, scale, draws) ==
    LET budget == spawn_budget(c, t, scale)
        n == to_spawn(c, t, scale)
        c1 == [c EXCEPT !.last_spawn_time = t,
                        !.spawn_remainder = IF budget = F32Inf THEN F32Inf
                                            ELSE budget - n * FP]
    IN  IF n = 0 THEN c1 ELSE spawn_attempts(c1, t, draws, 1, 1)

\* The samples n attempts can take.  An attempt that does not reach
\* fill_droplet takes no fill samples (NoFill); none is taken after the loop
\* is left.
NoFill == [end_line |-> 0, cp_idx |-> 0, len |-> 0, ttl |-> 0]

RECURSIVE AttemptDraws(_, _, _, _)
AttemptDrawsAfter(draw, a, t, n) ==
    IF a.brk THEN {<<draw>>}
    ELSE {<<draw>> \o rest : rest \in AttemptDraws(a.cloud, t, n - 1, a.idx)}

AttemptDraws(c, t, n, idx) ==
    IF n = 0 THEN {<< >>}
    ELSE UNION {
        LET col == spawn_col(c, col0)
            fills ==
                IF col \in DOMAIN c.col_stat /\ ColumnOpen(c, col)
                   /\ FreeSlot(c, idx) # 0
                THEN FillDraws(c) ELSE {NoFill}
        IN  UNION {AttemptDrawsAfter(
                       [col |-> col0, fill |-> fl],
                       spawn_attempt(c, t, [col |-> col0, fill |-> fl], idx),
                       t, n)
                   : fl \in fills}
        : col0 \in Samples(c.rand_col)}

SpawnDraws(c, t, scale) ==
    AttemptDraws([c EXCEPT !.last_spawn_time = t], t, to_spawn(c, t, scale), 1)

(***************************************************************************)
(* DrawCtx: the cloud's fields the draw pass reads.                        *)
(***************************************************************************)
DrawCtx_is_bright(c, t) ==
    IF t < c.last_glitch_time THEN FALSE
    ELSE LET since == SatSub(t, c.last_glitch_time)
             between == SatSub(c.next_glitch_time, c.last_glitch_time)
         IN  IF between <= 0 THEN FALSE ELSE 4 * since <= between

DrawCtx_is_dim(c, t) ==
    IF t > c.next_glitch_time THEN TRUE
    ELSE LET since == SatSub(t, c.last_glitch_time)
             between == SatSub(c.next_glitch_time, c.last_glitch_time)
         IN  IF between <= 0 THEN TRUE ELSE 4 * since >= 3 * between

DrawCtx_get_char(c, line, char_pool_idx) ==
    LET len == Max(Len(c.char_pool), 1)
        idx == (char_pool_idx + line) % len
    IN  IF idx + 1 \in DOMAIN c.char_pool THEN c.char_pool[idx + 1] ELSE "0"

\* The low bit of a glyph's code point.
CodeBit(val) == IF val = "1" THEN 1 ELSE 0

\* Mutant: a head and a tail cell are treated as a cell between them.
loc_attr_Middle(loc, color_idx, bold, last) ==
    [color_idx |-> Clamp(color_idx, 0, Max(last, 0)), bold |-> bold]

\* get_attr's match on the cell's place in the droplet.
loc_attr(loc, color_idx, bold, last) ==
    CASE loc = "Tail" -> [color_idx |-> 0, bold |-> FALSE]
      [] loc = "Head" -> [color_idx |-> last, bold |-> TRUE]
      [] OTHER -> [color_idx |-> Clamp(color_idx, 0, Max(last, 0)),
                   bold |-> bold]

DrawCtx_get_attr(c, line, col, val, loc, t, head_put_line, length) ==
    LET bold0 == c.bold_mode = "Random" /\ (line + CodeBit(val)) % 2 = 1
        idx == col * c.lines + line
        mapped == IF idx \in DOMAIN c.color_map THEN c.color_map[idx] ELSE 0
        n == Max(Len(c.palette.colors), 1)
        dist == SatSub(head_put_line, line)
        len == Max(length, 1)
        num == (n - 1) * (len - dist)
        shaded == IF num >= 0 THEN (2 * num + len) \div (2 * len)
                  ELSE 0 - ((len - 2 * num) \div (2 * len))
        idx1 == IF c.shading_distance THEN shaded ELSE mapped
        glitched == c.glitchy /\ idx \in DOMAIN c.glitch_map /\ c.glitch_map[idx]
        bright == glitched /\ DrawCtx_is_bright(c, t)
        dim == glitched /\ ~bright /\ DrawCtx_is_dim(c, t)
        idx2 == IF bright THEN idx1 + 1 ELSE IF dim THEN idx1 - 1 ELSE idx1
        bold1 == IF bright THEN TRUE ELSE IF dim THEN FALSE ELSE bold0
        last == SatSub(Len(c.palette.colors), 1)
        color_idx == loc_attr(loc, idx2, bold1, last).color_idx
        bold2 == loc_attr(loc, idx2, bold1, last).bold
        bold == CASE c.bold_mode = "Off" -> FALSE
                  [] c.bold_mode = "All" -> TRUE
                  [] OTHER -> bold2
    IN  [fg |-> IF c.color_mode = "Mono" THEN None
                ELSE IF color_idx + 1 \in DOMAIN c.palette.colors
                     THEN c.palette.colors[color_idx + 1] ELSE None,
         bold |-> bold]

\* Droplet::draw (see Droplet above): the rows the tail has left since the
\* last draw, or every row of a dead droplet, are blanked; the rows from
\* the tail to the head of a live droplet show their glyphs.
RECURSIVE draw_rows(_, _, _, _, _, _)
draw_rows(d, c, f, t, line, stop) ==
    IF line > stop THEN f
    ELSE
    LET shown == d.is_alive /\ line >= d.tail_cur_line
        loc == IF line = d.head_cur_line THEN "Head"
               ELSE IF line = d.tail_cur_line THEN "Tail" ELSE "Middle"
        val == DrawCtx_get_char(c, line, d.char_pool_idx)
        attr == DrawCtx_get_attr(c, line, d.bound_col, val, loc, t,
                                 d.head_cur_line, d.length)
        cell == IF shown
                THEN [ch |-> val, fg |-> attr.fg, bg |-> c.palette.bg,
                      bold |-> attr.bold]
                ELSE blank_with_bg(c.palette.bg)
    IN  draw_rows(d, c, Frame_set(f, d.bound_col, line, cell), t, line + 1,
                  stop)

Droplet_draw(d, c, f, t, draw_everything) ==
    LET first == IF d.tail_put_line = NoLine THEN 0 ELSE d.tail_put_line
        stop == IF d.is_alive THEN d.head_cur_line
                ELSE Max(d.head_cur_line, d.head_put_line)
    IN  [d |-> [d EXCEPT !.head_put_line = d.head_cur_line,
                         !.tail_put_line = d.tail_cur_line],
         frame |-> draw_rows(d, c, f, t, first, Min(stop, c.lines - 1))]

RECURSIVE draw_message_from(_, _, _)
draw_message_from(c, f, k) ==
    IF k > Len(c.message) THEN f
    ELSE
    LET mc == c.message[k]
        fg == IF c.color_mode = "Mono" \/ c.palette.colors = << >> THEN None
              ELSE c.palette.colors[Len(c.palette.colors)]
    IN  draw_message_from(c,
            Frame_set(f, mc.col, mc.line,
                      [ch |-> mc.val,
                       fg |-> IF mc.val = " " THEN None ELSE fg,
                       bg |-> c.palette.bg,
                       bold |-> mc.val # " " /\ c.bold_mode # "Off"]),
            k + 1)

\* Mutant: the overlay is not written.
Cloud_draw_message_None(c, f) == f

Cloud_draw_message(c, f) == draw_message_from(c, f, 1)

RECURSIVE Cloud_do_glitch_span(_, _, _, _, _)
Cloud_do_glitch_span(c, start_line, hp, col, cp_idx) ==
    IF ~c.glitchy \/ start_line > hp \/ start_line >= c.lines THEN c
    ELSE Cloud_do_glitch_span(
             IF Cloud_is_glitched(c, start_line, col)
             THEN [c EXCEPT
                      !.char_pool[((cp_idx + start_line) % Len(c.char_pool)) + 1] =
                          c.glitch_pool[(c.glitch_pool_idx % Len(c.glitch_pool)) + 1],
                      !.glitch_pool_idx = (@ + 1) % Len(c.glitch_pool)]
             ELSE c,
             start_line + 1, hp, col, cp_idx)

(***************************************************************************)
(* rain                                                                    *)
(***************************************************************************)
\* 1 - 0.75 * perf_pressure, clamped to [0.25, 1], in 1/ScaleDen.
spawn_scale(c) ==
    Clamp(ScaleDen - (3 * ScaleDen * c.perf_pressure) \div 400,
          ScaleDen \div 4, ScaleDen)

\* The time the update pass hands to droplet d's advance.
adv_now(c, d, t) ==
    IF c.max_sim_delta > 0 /\ d.last_time # NoTime
       /\ t > d.last_time + c.max_sim_delta
    THEN d.last_time + c.max_sim_delta ELSE t

\* Mutant: the column is opened and the count is not lowered.
column_died_KeepCount(c, col) ==
    IF col \in DOMAIN c.col_stat
    THEN [c EXCEPT !.col_stat[col].can_spawn = TRUE]
    ELSE c

\* Mutant: the count is lowered and the column is not opened.
column_died_Closed(c, col) ==
    IF col \in DOMAIN c.col_stat
    THEN [c EXCEPT !.col_stat[col].num_droplets = SatSub(@, 1)]
    ELSE c

\* The update pass on a droplet of column col that has died.
column_died(c, col) ==
    IF col \in DOMAIN c.col_stat
    THEN [c EXCEPT !.col_stat[col].num_droplets = SatSub(@, 1),
                   !.col_stat[col].can_spawn = TRUE]
    ELSE c

\* The update pass from droplet i on; free[i] is what droplet i's advance
\* returns.
RECURSIVE update_pass(_, _, _, _, _)
update_pass(c, t, free, time_for_glitch, i) ==
    IF i > Len(c.droplets) THEN c
    ELSE IF ~c.droplets[i].is_alive
    THEN update_pass(c, t, free, time_for_glitch, i + 1)
    ELSE
    LET d0 == c.droplets[i]
        adv == Droplet_advance(d0, adv_now(c, d0, t), c.lines, free[i])
        d == adv.d
        col == d.bound_col
        start_line == IF d.tail_put_line = NoLine THEN 0
                      ELSE d.tail_put_line + 1
        c1 == [c EXCEPT !.droplets[i] = d]
        c2 == IF ~d.is_alive THEN column_died(c1, col)
              ELSE LET c3 == IF adv.free_col
                             THEN Cloud_set_column_spawn(c1, col, TRUE)
                             ELSE c1
                   IN  IF time_for_glitch
                       THEN Cloud_do_glitch_span(c3, start_line,
                                                 d.head_put_line, col,
                                                 d.char_pool_idx)
                       ELSE c3
    IN  update_pass(c2, t, free, time_for_glitch, i + 1)

\* The draw pass from droplet i on.
RECURSIVE draw_pass(_, _, _, _, _)
draw_pass(c, f, t, draw_everything, i) ==
    IF i > Len(c.droplets) THEN [cloud |-> c, frame |-> f]
    ELSE
    LET d0 == c.droplets[i]
        needs_tail_cleanup == /\ ~d0.is_alive
                              /\ d0.bound_col # U16Max
                              /\ d0.tail_put_line # NoLine
                              /\ d0.tail_cur_line # d0.tail_put_line
        drawn == IF d0.is_alive \/ needs_tail_cleanup
                 THEN Droplet_draw(d0, c, f, t, draw_everything)
                 ELSE [d |-> d0, frame |-> f]
        d == IF ~drawn.d.is_alive THEN [drawn.d EXCEPT !.bound_col = U16Max]
             ELSE drawn.d
    IN  draw_pass([c EXCEPT !.droplets[i] = d], drawn.frame, t,
                  draw_everything, i + 1)

\* rain's clearing of the frame on a force-redraw request.
\* Mutant: a force-redraw request does not clear the frame.
rain_clear_Never(c, f) == f

rain_clear(c, f) ==
    IF c.force_draw_everything THEN Frame_clear_with_bg(f, c.palette.bg) ELSE f

\* rain's last statement.
\* Mutant: the force-redraw request is kept.
rain_finish_KeepForce(c) == c

rain_finish(c) == [c EXCEPT !.force_draw_everything = FALSE]

\* rain after its early return, one definition per stage: the glitch
\* times and the message, the draw pass, the update pass, the glitch
\* decision, the clearing of the frame, the spawning.
rain_end(r, t, rnd, glitch_due, time_for_glitch) ==
    [cloud |-> rain_finish(
                   IF time_for_glitch \/ glitch_due
                   THEN [r.cloud EXCEPT !.last_glitch_time = t,
                                        !.next_glitch_time = t + rnd.glitch_ms]
                   ELSE r.cloud),
     frame |-> IF r.cloud.message # << >>
               THEN Cloud_draw_message(r.cloud, r.frame) ELSE r.frame]

\* Whether the draw pass redraws every live droplet.
draw_everything(c, time_for_glitch) ==
    c.force_draw_everything \/ time_for_glitch

rain_draw(c, f, t, rnd, glitch_due, time_for_glitch) ==
    rain_end(draw_pass(c, f, t, draw_everything(c, time_for_glitch), 1),
             t, rnd, glitch_due, time_for_glitch)

rain_update(c, f, t, rnd, glitch_due, time_for_glitch) ==
    rain_draw(update_pass(c, t, rnd.free, time_for_glitch, 1), f, t, rnd,
              glitch_due, time_for_glitch)

\* Mutant: a glitch that is due is allowed whatever the pressure.
allow_glitch_Always(c, glitch_due) == glitch_due

\* allow_glitch: the glitch is due and perf_pressure is below 0.35.
allow_glitch(c, glitch_due) == glitch_due /\ c.perf_pressure < 35

rain_glitch(c, f, t, rnd, glitch_due) ==
    rain_update(c, f, t, rnd, glitch_due, allow_glitch(c, glitch_due))

rain_spawned(c, f, t, rnd) ==
    rain_glitch(c, rain_clear(c, f), t, rnd, Cloud_time_for_glitch(c, t))

rain_body(c, f, t, rnd) ==
    rain_spawned(Cloud_spawn_droplets(c, t, spawn_scale(c), rnd.spawn), f, t,
                 rnd)

\* Mutant: no early return when paused.
Cloud_rain_NoPause(c, f, t, rnd) == rain_body(c, f, t, rnd)

Cloud_rain(c, f, t, rnd) ==
    IF c.pause THEN [cloud |-> c, frame |-> f] ELSE rain_body(c, f, t, rnd)

\* The outcomes of a rain's samples and of its droplets' advances: free is
\* FALSE for a droplet that does not advance.
RainDraws(c, t) ==
    IF c.pause
    THEN {[spawn |-> << >>, free |-> [i \in DOMAIN c.droplets |-> FALSE],
           glitch_ms |-> c.rand_glitch_ms.lo]}
    ELSE UNION {
        LET c1 == Cloud_spawn_droplets(c, t, spawn_scale(c), sp)
        IN  [spawn : {sp},
             free : {fr \in [DOMAIN c.droplets -> BOOLEAN] :
                        \A i \in DOMAIN c.droplets :
                            fr[i] => c1.droplets[i].is_alive},
             glitch_ms : IF Cloud_time_for_glitch(c, t)
                         THEN Samples(c.rand_glitch_ms)
                         ELSE {c.rand_glitch_ms.lo}]
        : sp \in SpawnDraws(c, t, spawn_scale(c))}

(***************************************************************************)
(* Terminal (terminal.rs).  stdout is the sequence of Prints the latest     *)
(* draw has queued, each with the position of the cursor: x, y and the      *)
(* cells printed from there on.                                             *)
(***************************************************************************)
NoLast == [some |-> FALSE, width |-> 0, height |-> 0, cells |-> << >>]

LastFrame_new(width, height) ==
    [some |-> TRUE, width |-> width, height |-> height,
     cells |-> [i \in 0..(width * height - 1) |-> blank_with_bg(None)]]

Terminal_new == [last |-> NoLast, out |-> << >>]

needs_full_redraw(tm, f) ==
    IF tm.last.some
    THEN tm.last.width # f.width \/ tm.last.height # f.height
    ELSE TRUE

\* Mutant: the dirty cells are many when they are more than a third.
dirty_is_large_OverThird(f) ==
    f.width * f.height > 0
        /\ 3 * Len(Frame_dirty_indices(f)) > f.width * f.height

dirty_is_large(f) ==
    f.width * f.height > 0
        /\ Len(Frame_dirty_indices(f)) >= (f.width * f.height) \div 3

do_full_redraw(tm, f) ==
    \/ ~(~needs_full_redraw(tm, f) /\ tm.last.some)
    \/ Frame_is_dirty_all(f)
    \/ dirty_is_large(f)

\* The full path: every cell is printed, row by row, and stored.
Terminal_draw_full(tm, f) ==
    LET last == IF needs_full_redraw(tm, f)
                THEN LastFrame_new(f.width, f.height) ELSE tm.last
    IN  [last |-> [last EXCEPT !.cells =
                      [i \in DOMAIN last.cells |-> Frame_cell_at_index(f, i)]],
         out |-> [k \in 1..(f.width * f.height) |->
                     [x |-> (k - 1) % f.width, y |-> (k - 1) \div f.width,
                      cells |-> <<Frame_cell_at_index(f, k - 1)>>]]]

\* row_dirty[y] once sorted.
row_dirty(f, y) ==
    SortSeq(SelectSeq(Frame_dirty_indices(f),
                      LAMBDA i : i \div f.width = y),
            LAMBDA a, b : a < b)

\* Mutant: a run goes on over a cell that the snapshot already holds.
RECURSIVE run_end_NoSkip(_, _, _, _, _, _)
run_end_NoSkip(b, j, f, last, cell0, last_idx) ==
    IF j > Len(b) THEN j
    ELSE IF b[j] # last_idx + 1 THEN j
    ELSE IF Frame_cell_at_index(f, b[j]).fg # cell0.fg
            \/ Frame_cell_at_index(f, b[j]).bg # cell0.bg
            \/ Frame_cell_at_index(f, b[j]).bold # cell0.bold THEN j
    ELSE run_end_NoSkip(b, j + 1, f, last, cell0, b[j])

\* Mutant: a run goes on over a change of attributes.
RECURSIVE run_end_AnyAttr(_, _, _, _, _, _)
run_end_AnyAttr(b, j, f, last, cell0, last_idx) ==
    IF j > Len(b) THEN j
    ELSE IF b[j] # last_idx + 1 THEN j
    ELSE IF last.cells[b[j]] = Frame_cell_at_index(f, b[j]) THEN j
    ELSE run_end_AnyAttr(b, j + 1, f, last, cell0, b[j])

\* The inner loop: the position in b at which the run that starts with
\* cell0 stops, j being the next candidate and last_idx the run's last index.
RECURSIVE run_end(_, _, _, _, _, _)
run_end(b, j, f, last, cell0, last_idx) ==
    IF j > Len(b) THEN j
    ELSE IF b[j] # last_idx + 1 THEN j
    ELSE IF last.cells[b[j]] = Frame_cell_at_index(f, b[j]) THEN j
    ELSE IF Frame_cell_at_index(f, b[j]).fg # cell0.fg
            \/ Frame_cell_at_index(f, b[j]).bg # cell0.bg
            \/ Frame_cell_at_index(f, b[j]).bold # cell0.bold THEN j
    ELSE run_end(b, j + 1, f, last, cell0, b[j])

\* Mutant: the run b[i..j-1] is printed and not stored.
put_run_PrintOnly(tm, f, b, i, j) ==
    [last |-> tm.last,
     out |-> Append(tm.out,
                    [x |-> b[i] % f.width, y |-> b[i] \div f.width,
                     cells |-> [k \in 1..(j - i) |->
                                   Frame_cell_at_index(f, b[i + k - 1])]])]

\* The run b[i..j-1] is stored and printed.
put_run(tm, f, b, i, j) ==
    [last |-> [tm.last EXCEPT !.cells =
                  [n \in DOMAIN tm.last.cells |->
                      IF \E k \in i..(j - 1) : b[k] = n
                      THEN Frame_cell_at_index(f, n) ELSE tm.last.cells[n]]],
     out |-> Append(tm.out,
                    [x |-> b[i] % f.width, y |-> b[i] \div f.width,
                     cells |-> [k \in 1..(j - i) |->
                                   Frame_cell_at_index(f, b[i + k - 1])]])]

\* The loop over one row's dirty indices, from position i on.
RECURSIVE draw_row(_, _, _, _)
draw_row(tm, f, b, i) ==
    IF i > Len(b) THEN tm
    ELSE IF tm.last.cells[b[i]] = Frame_cell_at_index(f, b[i])
    THEN draw_row(tm, f, b, i + 1)
    ELSE draw_row(put_run(tm, f, b, i,
                          run_end(b, i + 1, f, tm.last,
                                  Frame_cell_at_index(f, b[i]), b[i])),
                  f, b,
                  run_end(b, i + 1, f, tm.last,
                          Frame_cell_at_index(f, b[i]), b[i]))

\* The incremental path: the touched rows in ascending order.
RECURSIVE Terminal_draw_incremental(_, _, _)
Terminal_draw_incremental(tm, f, y) ==
    IF y >= f.height THEN tm
    ELSE Terminal_draw_incremental(draw_row(tm, f, row_dirty(f, y), 1), f,
                                   y + 1)

Terminal_draw(tm, f) ==
    [term |-> IF do_full_redraw(tm, f) THEN Terminal_draw_full(tm, f)
              ELSE Terminal_draw_incremental([tm EXCEPT !.out = << >>], f, 0),
     frame |-> Frame_clear_dirty(f)]

(***************************************************************************)
(* Ghost record of the latest call.                                        *)
(***************************************************************************)
NoOp == [name |-> "new", x |-> 0, y |-> 0, arg |-> None]

Call(name, x, y, arg) == [name |-> name, x |-> x, y |-> y, arg |-> arg]

\* Ghost counters: the spawn attempts and the droplets spawned by the rains
\* so far, and the calls made so far.
NoTally == [attempts |-> 0, spawned |-> 0, calls |-> 0]

\* The terminal's modes: raw mode, the alternate screen, the hidden cursor.
\* Terminal::new sets them, Drop and restore_terminal_best_effort undo them.
Tty_init == [raw |-> TRUE, alt |-> TRUE, hidden |-> TRUE]

Tty_restore == [raw |-> FALSE, alt |-> FALSE, hidden |-> FALSE]

NoResize == [some |-> FALSE, w |-> 0, h |-> 0]

\* main's locals when the loop starts at time t: the position in the loop,
\* next_frame, perf_pressure, end_time (NoTime: no --duration), the
\* iteration's frame_period, pending_resize and work_start, the term_reinit
\* flag and the screensaver option; then the terminal's modes, the position
\* of the signal thread, and ghosts: a restoration has run, a quit key was
\* read, the rains and draws so far, those started at or after end_time,
\* and the events; then the locals main has before it builds the cloud: the
\* charset, the user's ranges, default_to_ascii(), and the chars built from
\* them (none yet).
Main_new(screensaver, end_time, t) ==
    [pc |-> "top", next_frame |-> t, perf_pressure |-> 0,
     end_time |-> end_time, frame_period |-> 0, pending_resize |-> NoResize,
     work_start |-> t, term_reinit |-> FALSE, screensaver |-> screensaver,
     tty |-> Tty_init, sig |-> "idle", restored |-> FALSE, quit |-> FALSE,
     rains |-> 0,
     draws |-> 0, late_rains |-> 0, late_draws |-> 0, events |-> 0,
     charset |-> 0, user_ranges |-> << >>, def_ascii |-> FALSE,
     chars |-> << >>]

NoMain == Main_new(FALSE, NoTime, 0)

(***************************************************************************)
(* SpecFrame: a Frame driven by arbitrary set, clear_with_bg and           *)
(* clear_dirty calls.                                                      *)
(***************************************************************************)
\* Coordinates handed to set: every cell of the grid, one column past the
\* right edge and one row past the bottom edge.
Coords(f) ==
    {<<x, y>> : x \in 0..(f.width - 1), y \in 0..(f.height - 1)}
        \cup {<<f.width, 0>>, <<0, f.height>>}

InitFrame ==
    /\ \E w \in 1..MaxFrameW, bg \in BgVals :
           /\ frame = Frame_new(w, 1, bg)
           /\ cbg = bg
    /\ snap = Effective(frame)
    /\ wr = {}
    /\ op = NoOp
    /\ cloud = Cloud_new("Mono", FALSE, "Random", "Off", FALSE, TRUE, "Green", 0)
    /\ now = 0
    /\ term = Terminal_new
    /\ tally = NoTally
    /\ main = NoMain

FSet ==
    \E xy \in Coords(frame), c \in CellVals :
        /\ frame' = Frame_set(frame, xy[1], xy[2], c)
        /\ wr' = wr \cup ({Frame_index(frame, xy[1], xy[2])} \ {NoIndex})
        /\ op' = Call("set", xy[1], xy[2], c)
        /\ UNCHANGED <<snap, cbg, cloud, now, term, tally, main>>

FClearWithBg ==
    \E bg \in BgVals :
        /\ frame' = Frame_clear_with_bg(frame, bg)
        /\ wr' = {}
        /\ cbg' = bg
        /\ op' = Call("clear_with_bg", 0, 0, bg)
        /\ UNCHANGED <<snap, cloud, now, term, tally, main>>

FClearDirty ==
    /\ frame' = Frame_clear_dirty(frame)
    /\ snap' = Effective(frame)
    /\ op' = Call("clear_dirty", 0, 0, None)
    /\ UNCHANGED <<wr, cbg, cloud, now, term, tally, main>>

NextFrame == FSet \/ FClearWithBg \/ FClearDirty

SpecFrame == InitFrame /\ [][NextFrame]_vars

(***************************************************************************)
(* Claims about the Frame (checked under SpecFrame).                       *)
(***************************************************************************)
DirtySet(f) == {f.dirty[k] : k \in 1..Len(f.dirty)}

\* Cells whose effective value differs from the one at the latest clear_dirty.
Changed == {i \in DOMAIN frame.cells : Effective(frame)[i] # snap[i]}

NoDup(s) == \A j, k \in 1..Len(s) : j # k => s[j] # s[k]

\* The cell index the latest call addressed (NoIndex outside the grid).
OpIndex == Frame_index(frame, op.x, op.y)

\* C1 as stated: whenever the whole-frame-dirty flag is not set, the dirty
\* list holds exactly the indices of the cells whose effective value differs
\* from their value at the most recent clear_dirty.
C1_DirtyExact == ~frame.dirty_all => DirtySet(frame) = Changed

\* C1 as amended: whenever the whole-frame-dirty flag is not set, every cell
\* whose effective value differs from its value at the most recent
\* clear_dirty is in the dirty list (no index is missing); the list may also
\* hold an index whose value is back to what it was.
C1_DirtyCovers == ~frame.dirty_all => Changed \subseteq DirtySet(frame)

\* A cell was changed and changed back: it is listed, and reads as it did at
\* the latest clear_dirty.
C1_Witness ==
    /\ ~frame.dirty_all
    /\ \E i \in DirtySet(frame) : i \notin Changed

\* C2: every cell index appears at most once in the dirty list, and a set
\* call that repeats the previous set call (same cell, same value) leaves
\* the dirty list as it was.
C2_DirtyOnce ==
    [][/\ NoDup(frame'.dirty)
       /\ (op.name = "set" /\ op' = op) => frame'.dirty = frame.dirty]_vars

\* A cell written at least twice since the latest clear_dirty (its value is
\* back to the snapshot's) is listed once.
C2_Witness ==
    /\ ~frame.dirty_all
    /\ op.name = "set"
    /\ OpIndex \in DirtySet(frame)
    /\ OpIndex \notin Changed
    /\ Len(frame.dirty) = frame.width

\* C3: set(x, y, cell) leaves the whole Frame unchanged when cell equals the
\* current effective value at (x, y), and when (x, y) is outside the grid.
C3_SetNoop ==
    [][(/\ op'.name = "set"
        /\ LET i == Frame_index(frame, op'.x, op'.y)
           IN  i = NoIndex \/ Frame_cell_at_index(frame, i) = op'.arg)
       => frame' = frame]_vars

\* The latest call set a cell that is not written in the current generation
\* to the blank it already reads as, and the cell is not listed dirty.
C3_Witness ==
    /\ op.name = "set"
    /\ OpIndex # NoIndex
    /\ ~frame.dirty_all
    /\ frame.dirty = << >>
    /\ frame.cell_gen[OpIndex] # frame.gen
    /\ op.arg = frame.blank
    /\ frame.cells[OpIndex] # frame.blank

\* C4: after clear_with_bg(bg) every cell reads back as the blank cell with
\* background bg until a set call writes that cell again.
C4_ClearReadsBlank ==
    \A i \in DOMAIN frame.cells :
        i \notin wr =>
            /\ Frame_cell_at_index(frame, i) = blank_with_bg(cbg)
            /\ Frame_get(frame, i % frame.width, i \div frame.width)
                   = blank_with_bg(cbg)

\* A cell holding a glyph was cleared with another background, and a
\* clear_dirty has run since: the unwritten cell still reads as the new blank.
C4_Witness ==
    /\ op.name = "clear_dirty"
    /\ \E i \in DOMAIN frame.cells :
           /\ i \notin wr
           /\ frame.cells[i] = GlyphX
           /\ cbg = "Black"
           /\ frame.gen = 1
           /\ frame.cell_gen[i] = 0

(***************************************************************************)
(* SpecCloud: the Cloud and its Frame as main.rs builds them, driven by    *)
(* the calls of the main loop, one frame after another.                    *)
(***************************************************************************)
\* The grid, and the number of frames.
GridCols == 1
GridLines == 2
MaxFrames == 3

\* The command line: --fps 4 --speed 4 --density 2 --maxdpc 1 --noglitch
\* --glitchms 300,300 --lingerms 1,1 --shortpct 100 --chars 0, 16 colours.
\* A droplet falls one row a frame.
CloudArgs ==
    [color_mode |-> "Color16", fullwidth |-> FALSE, shading_mode |-> "Random",
     bold_mode |-> "Off", async |-> FALSE, default_background |-> FALSE,
     color_scheme |-> "Green", noglitch |-> TRUE, glitch_pct |-> 10,
     glitch_low |-> 300, glitch_high |-> 300, linger_low |-> 1,
     linger_high |-> 1, short_pct |-> 100, die_early_pct |-> 33,
     max_dpc |-> 1, density |-> 200, speed |-> 4, chars |-> <<"0">>,
     fps |-> 4]

\* The frame period of the main loop: 1 / fps, or pause_period.
frame_period(args, pause) == IF pause THEN 250 ELSE 1000 \div args.fps

\* Mutant: the cap does not follow the perf pressure.
sim_cap_NoPressure(period, perf_pressure) ==
    Clamp(period * 3, Max(period \div 2, 1), Min(period * 3, 500))

\* The simulation cap the main loop computes from the frame period and the
\* perf pressure.
sim_cap(period, perf_pressure) ==
    LET sim_base == period * 3
        sim_factor == Clamp(100 - (perf_pressure * 70) \div 100, 30, 100)
        sim_min == Max(period \div 2, 1)
        sim_max == Min(sim_base, 500)
    IN  Clamp((sim_base * sim_factor) \div 100, sim_min, sim_max)

\* main.rs builds the cloud: new, the setters, init_chars; reset follows.
\* The maps the setters fill are replaced by the reset's.
main_cloud(args, t, pool, gpool) ==
    LET c0 == Cloud_new(args.color_mode, args.fullwidth, args.shading_mode,
                        args.bold_mode, args.async, args.default_background,
                        args.color_scheme, t)
        c1 == [c0 EXCEPT !.glitchy = ~args.noglitch]
        c2 == Cloud_set_glitch_pct(c1, args.glitch_pct,
                  [i \in 0..(c1.lines * c1.cols - 1) |-> FALSE])
        c3 == Cloud_set_glitch_times(c2, args.glitch_low, args.glitch_high)
        c4 == Cloud_set_linger_times(c3, args.linger_low, args.linger_high)
        c5 == [c4 EXCEPT !.short_pct = args.short_pct,
                         !.die_early_pct = args.die_early_pct]
        c6 == Cloud_set_max_droplets_per_column(c5, args.max_dpc)
        c7 == Cloud_set_droplet_density(c6, args.density)
        c8 == Cloud_set_chars_per_sec(c7, args.speed, << >>)
    IN  Cloud_init_chars(c8, pool, gpool)

InitMain(args, m, cols, lines) ==
    /\ now = 0
    /\ \E pool \in Pools(args.chars, CharPoolLen),
          gpool \in Pools(args.chars, GlitchPoolLen) :
         LET c == main_cloud(args, 0, pool, gpool)
         IN  \E rnd \in ResetDraws(c, cols, lines) :
                 /\ cloud = Cloud_reset(c, cols, lines, 0, rnd)
                 /\ frame = Frame_new(cols, lines, c.palette.bg)
    /\ snap = << >>
    /\ wr = {}
    /\ cbg = None
    /\ op = NoOp
    /\ term = Terminal_new
    /\ tally = NoTally
    /\ main = m

Init(args) == InitMain(args, NoMain, GridCols, GridLines)

InitCloud == Init(CloudArgs)

\* The main loop is at its event polling unless a rain has returned and the
\* frame is still to be drawn.
AtEvents == op.name # "rain"

\* What one iteration of the main loop hands to rain, a frame period after
\* the previous one: the clock, and the cloud with the perf pressure (none:
\* the loop keeps up) and the simulation cap set.
loop_now == now + frame_period(CloudArgs, cloud.pause)

loop_cloud ==
    Cloud_set_max_sim_delta(Cloud_set_perf_pressure(cloud, 0),
                            sim_cap(frame_period(CloudArgs, cloud.pause), 0))

\* cloud.rain(&mut frame), rnd holding the outcomes of its samples.
RainWith(frames, rnd) ==
    /\ AtEvents
    /\ now < frames * frame_period(CloudArgs, FALSE)
    /\ now' = loop_now
    /\ LET r == Cloud_rain(loop_cloud, frame, loop_now, rnd)
       IN  /\ cloud' = r.cloud
           /\ frame' = r.frame
    /\ op' = Call("rain", 0, 0, None)
    /\ UNCHANGED <<snap, wr, cbg, term, main>>

Rain(frames) ==
    \E rnd \in RainDraws(loop_cloud, loop_now) : RainWith(frames, rnd)

CRain == Rain(MaxFrames) /\ UNCHANGED tally

\* The main loop draws the frame if it is dirty.
CDrawn ==
    /\ ~AtEvents
    /\ IF Frame_is_dirty_all(frame) \/ Frame_dirty_indices(frame) # << >>
       THEN /\ term' = Terminal_draw(term, frame).term
            /\ frame' = Terminal_draw(term, frame).frame
       ELSE UNCHANGED <<term, frame>>
    /\ op' = Call("draw", 0, 0, None)
    /\ UNCHANGED <<snap, wr, cbg, cloud, now, tally, main>>

\* The 'p' key.
CTogglePause ==
    /\ AtEvents
    /\ cloud' = Cloud_toggle_pause(cloud, now)
    /\ op' = Call("toggle_pause", 0, 0, None)
    /\ UNCHANGED <<frame, snap, wr, cbg, now, term, tally, main>>

\* The space key: reset to the frame's size, then force_draw_everything.
CReset ==
    /\ AtEvents
    /\ \E rnd \in ResetDraws(cloud, frame.width, frame.height) :
           cloud' = Cloud_force_draw_everything(
                        Cloud_reset(cloud, frame.width, frame.height, now, rnd))
    /\ op' = Call("reset", 0, 0, None)
    /\ UNCHANGED <<frame, snap, wr, cbg, now, term, tally, main>>

\* The color scheme keys.
CSetColorScheme ==
    /\ AtEvents
    /\ \E scheme \in {IF cloud.color_scheme = "Green" THEN "Green3"
                        ELSE "Green"} :
           \E cm \in ColorMaps(build_palette(scheme, cloud.color_mode,
                                             cloud.default_background),
                               cloud.lines, cloud.cols) :
               cloud' = Cloud_set_color_scheme(cloud, scheme, cm)
    /\ op' = Call("set_color_scheme", 0, 0, None)
    /\ UNCHANGED <<frame, snap, wr, cbg, now, term, tally, main>>

\* The shading key.
CSetShadingMode ==
    /\ AtEvents
    /\ cloud' = Cloud_set_shading_mode(cloud,
                    IF cloud.shading_distance THEN "Random"
                    ELSE "DistanceFromHead")
    /\ op' = Call("set_shading_mode", 0, 0, None)
    /\ UNCHANGED <<frame, snap, wr, cbg, now, term, tally, main>>

\* set_message and force_draw_everything: main calls the first before the
\* loop and the second at a re-initialisation and a charset key; the Cloud
\* takes either call between any two frames.
CSetMessage ==
    /\ AtEvents
    /\ cloud' = Cloud_set_message(cloud, SomeText(<< <<"h", "i">> >>))
    /\ op' = Call("set_message", 0, 0, None)
    /\ UNCHANGED <<frame, snap, wr, cbg, now, term, tally, main>>

CForceDrawEverything ==
    /\ AtEvents
    /\ cloud' = Cloud_force_draw_everything(cloud)
    /\ op' = Call("force_draw_everything", 0, 0, None)
    /\ UNCHANGED <<frame, snap, wr, cbg, now, term, tally, main>>

NextCloud ==
    \/ CRain
    \/ CDrawn
    \/ CTogglePause
    \/ CReset

SpecCloud == InitCloud /\ [][NextCloud]_vars

(***************************************************************************)
(* Claims about the droplets (SpecCloud).                                  *)
(***************************************************************************)
\* The live droplets bound to a column.
AliveIn(c, col) ==
    {i \in DOMAIN c.droplets :
        c.droplets[i].is_alive /\ c.droplets[i].bound_col = col}

\* The step is a call of rain.
RainStep == op.name # "rain" /\ op'.name = "rain"

\* C5: whatever resets and rain ticks came before, a column never holds
\* more live droplets than max_droplets_per_column.
C5_ColumnCap ==
    \A col \in DOMAIN cloud.col_stat :
        Cardinality(AliveIn(cloud, col)) <= cloud.max_droplets_per_column

\* A rain has left a column at its cap, and the column's droplet has
\* reported the column free: only the cap keeps the next spawn out.
C5_Witness ==
    /\ op.name = "rain"
    /\ \E col \in DOMAIN cloud.col_stat :
           /\ cloud.col_stat[col].can_spawn
           /\ Cardinality(AliveIn(cloud, col)) = cloud.max_droplets_per_column

\* C6: the tail row of a live droplet is at most its head row, from the
\* spawn on and after every advance.
C6_TailBehindHead ==
    \A i \in DOMAIN cloud.droplets :
        cloud.droplets[i].is_alive =>
            cloud.droplets[i].tail_cur_line <= cloud.droplets[i].head_cur_line

\* A live droplet whose head has fallen below row 0.
C6_Witness ==
    \E i \in DOMAIN cloud.droplets :
        /\ cloud.droplets[i].is_alive
        /\ cloud.droplets[i].head_cur_line > 0
        /\ cloud.droplets[i].tail_cur_line <= cloud.droplets[i].head_cur_line

\* The cloud without the two fields the main loop sets before every rain.
RainView(c) == [c EXCEPT !.perf_pressure = 0, !.max_sim_delta = 0]

\* C8: a rain of a paused cloud changes neither the frame nor the cloud:
\* the cells, the dirty state, the droplets, the column statuses, the spawn
\* clock and the force-redraw flag are what they were.
C8_PausedRainNoChange ==
    [][(RainStep /\ cloud.pause) =>
           /\ frame' = frame
           /\ RainView(cloud') = RainView(cloud)]_vars

\* A paused rain has returned while a droplet was alive and time had passed
\* since the last spawn.
C8_Witness ==
    /\ op.name = "rain"
    /\ cloud.pause
    /\ now > cloud.last_spawn_time
    /\ \E i \in DOMAIN cloud.droplets : cloud.droplets[i].is_alive

(***************************************************************************)
(* SpecSpawn: consecutive frames of the main loop, nothing else: every     *)
(* rain comes one frame period after the previous one, at a fixed spawn     *)
(* rate.  The tally counts the attempts of spawn_droplets' loop and the     *)
(* droplets it has activated.                                               *)
(***************************************************************************)
MaxSpawnFrames == 4

\* The same command line with --density 0.5, 0.75, 1, 1.25 or 1.5: from a
\* quarter of a droplet a frame to three quarters.
SpawnDensities == {50, 75, 100, 125, 150}

InitSpawn == \E density \in SpawnDensities :
                 Init([CloudArgs EXCEPT !.density = density])

\* The droplets c1 holds alive in slots that were free in c.
Spawned(c, c1) ==
    Cardinality({i \in DOMAIN c.droplets :
                    ~c.droplets[i].is_alive /\ c1.droplets[i].is_alive})

SRain ==
    \E rnd \in RainDraws(loop_cloud, loop_now) :
        /\ RainWith(MaxSpawnFrames, rnd)
        /\ tally' =
               [tally EXCEPT
                   !.attempts =
                       @ + to_spawn(loop_cloud, loop_now,
                                    spawn_scale(loop_cloud)),
                   !.spawned =
                       @ + Spawned(loop_cloud,
                                   Cloud_spawn_droplets(
                                       loop_cloud, loop_now,
                                       spawn_scale(loop_cloud), rnd.spawn))]

SDrawn == CDrawn

NextSpawn == SRain \/ SDrawn

SpecSpawn == InitSpawn /\ [][NextSpawn]_vars

\* N, the rain ticks so far, and N * Delta * R in 1/FP droplets, Delta being
\* the frame period and R the cloud's droplets_per_sec at full scale.
Ticks == now \div frame_period(CloudArgs, FALSE)

RateBudget ==
    Ticks * ((((frame_period(CloudArgs, FALSE) * cloud.droplets_per_sec)
                  \div 1000) * ScaleDen) \div ScaleDen)

\* C7 as stated: after N ticks the droplets spawned so far differ from
\* floor(N * Delta * R) by at most one.
C7_SpawnedTracksRate ==
    /\ tally.spawned - (RateBudget \div FP) <= 1
    /\ (RateBudget \div FP) - tally.spawned <= 1

\* C7, amended: the attempts of the spawn loop so far and the carried
\* remainder add up to N * Delta * R exactly, so the attempts are
\* floor(N * Delta * R) whenever less than one droplet is carried; the
\* droplets spawned are at most the attempts.
C7_AttemptsConserved ==
    /\ tally.attempts * FP + cloud.spawn_remainder = RateBudget
    /\ cloud.spawn_remainder >= 0
    /\ cloud.spawn_remainder < FP => tally.attempts = RateBudget \div FP
    /\ tally.spawned <= tally.attempts

\* A fraction of a droplet is carried after a tick whose attempt was
\* dropped: the column picked was at its cap.
C7_Witness ==
    /\ op.name = "rain"
    /\ cloud.spawn_remainder > 0
    /\ tally.attempts >= 2
    /\ tally.spawned < tally.attempts

(***************************************************************************)
(* SpecRedraw: the same main loop with every key that asks for a full      *)
(* redraw, at most one key between two frames.                             *)
(***************************************************************************)
MaxRedrawFrames == 2

\* The same command line with --density 1: a droplet every other frame.
RedrawArgs == [CloudArgs EXCEPT !.density = 100]

InitRedraw == Init(RedrawArgs)

RRain == Rain(MaxRedrawFrames) /\ UNCHANGED tally

OneKey == op.name \in {"new", "draw"}

RTogglePause == OneKey /\ CTogglePause
RReset == OneKey /\ CReset
RSetColorScheme == OneKey /\ CSetColorScheme
RSetShadingMode == OneKey /\ CSetShadingMode
RSetMessage == OneKey /\ CSetMessage
RForceDrawEverything == OneKey /\ CForceDrawEverything

NextRedraw ==
    \/ RRain
    \/ CDrawn
    \/ RTogglePause
    \/ RReset
    \/ RSetColorScheme
    \/ RSetShadingMode
    \/ RSetMessage
    \/ RForceDrawEverything

SpecRedraw == InitRedraw /\ [][NextRedraw]_vars

\* The cell at index i lies under a live droplet or under the message.
UnderDroplet(c, i) ==
    \E k \in DOMAIN c.droplets :
        /\ c.droplets[k].is_alive
        /\ c.droplets[k].bound_col = i % c.cols
        /\ c.droplets[k].tail_cur_line <= i \div c.cols
        /\ i \div c.cols <= c.droplets[k].head_cur_line

UnderMessage(c, i) ==
    \E k \in DOMAIN c.message :
        c.message[k].line * c.cols + c.message[k].col = i

\* The calls that ask for a full redraw.
RedrawCalls ==
    {"reset", "set_message", "set_color_scheme", "set_shading_mode",
     "force_draw_everything"}

\* C9: each of reset, set_message, set_color_scheme, set_shading_mode and
\* force_draw_everything leaves a force-redraw request; a rain of a cloud
\* that is not paused serves the request: it clears the frame (only what
\* this tick draws is left on it), leaves it whole-frame dirty and drops
\* the request; a rain without a request leaves a frame that was not
\* whole-frame dirty that way; a rain of a paused cloud keeps the request.
C9_ForcedRedraw ==
    [][/\ op'.name \in RedrawCalls => cloud'.force_draw_everything
       /\ (RainStep /\ ~cloud.pause /\ cloud.force_draw_everything)
           => /\ Frame_is_dirty_all(frame')
              /\ frame'.gen # frame.gen
              /\ \A i \in DOMAIN frame'.cells :
                     Frame_cell_at_index(frame', i) # frame'.blank
                         => UnderDroplet(cloud', i) \/ UnderMessage(cloud', i)
              /\ ~cloud'.force_draw_everything
       /\ (RainStep /\ ~cloud.pause /\ ~cloud.force_draw_everything
               /\ ~Frame_is_dirty_all(frame))
           => /\ ~Frame_is_dirty_all(frame')
              /\ frame'.gen = frame.gen
       /\ (RainStep /\ cloud.pause)
           => cloud'.force_draw_everything = cloud.force_draw_everything
      ]_vars

\* A rain later than the first has served a request (the first rain served
\* the one of the reset that follows construction): the frame is
\* whole-frame dirty, a droplet is on it, the request is gone.
C9_Witness ==
    /\ op.name = "rain"
    /\ now > frame_period(CloudArgs, FALSE)
    /\ ~cloud.pause
    /\ Frame_is_dirty_all(frame)
    /\ ~cloud.force_draw_everything
    /\ \E i \in DOMAIN frame.cells :
           Frame_cell_at_index(frame, i) # frame.blank

(***************************************************************************)
(* SpecTerm: a Terminal drawing a Frame that set and clear_with_bg calls   *)
(* change, that a resize replaces, the terminal being re-created at a      *)
(* re-initialisation.                                                      *)
(***************************************************************************)
\* The sizes of the frame (width, height), and the number of calls.
Shapes == {<<1, 1>>, <<3, 2>>}
MaxTermCalls == 4

InitTerm ==
    /\ \E s \in Shapes : frame = Frame_new(s[1], s[2], None)
    /\ term = Terminal_new
    /\ snap = << >>
    /\ wr = {}
    /\ cbg = None
    /\ op = NoOp
    /\ cloud = Cloud_new("Mono", FALSE, "Random", "Off", FALSE, TRUE, "Green", 0)
    /\ now = 0
    /\ tally = NoTally
    /\ main = NoMain

Called(name) ==
    /\ tally.calls < MaxTermCalls
    /\ tally' = [tally EXCEPT !.calls = @ + 1]
    /\ op' = Call(name, 0, 0, None)
    /\ UNCHANGED <<snap, wr, cbg, cloud, now, main>>

TSet ==
    \E xy \in Coords(frame), c \in {GlyphX, blank_with_bg(None)} :
        /\ frame' = Frame_set(frame, xy[1], xy[2], c)
        /\ Called("set")
        /\ UNCHANGED term

TClearWithBg ==
    /\ frame' = Frame_clear_with_bg(frame, None)
    /\ Called("clear_with_bg")
    /\ UNCHANGED term

\* term.draw(&mut frame).
TDraw ==
    /\ term' = Terminal_draw(term, frame).term
    /\ frame' = Terminal_draw(term, frame).frame
    /\ Called("draw")

\* A resize: the main loop replaces the frame.
TResize ==
    \E s \in Shapes :
        /\ <<frame.width, frame.height>> # s
        /\ frame' = Frame_new(s[1], s[2], None)
        /\ Called("resize")
        /\ UNCHANGED term

\* A re-initialisation: the main loop drops the terminal, creates a new one
\* and replaces the frame.
TReinit ==
    \E s \in Shapes :
        /\ term' = Terminal_new
        /\ frame' = Frame_new(s[1], s[2], None)
        /\ Called("reinit")

NextTerm == TSet \/ TClearWithBg \/ TDraw \/ TResize \/ TReinit

SpecTerm == InitTerm /\ [][NextTerm]_vars

\* The Prints are those of a full redraw of f: one cell each, every cell,
\* row by row.
FullOutput(out, f) ==
    /\ Len(out) = f.width * f.height
    /\ \A k \in 1..Len(out) :
           /\ out[k].x = (k - 1) % f.width
           /\ out[k].y = (k - 1) \div f.width
           /\ out[k].cells = <<Frame_cell_at_index(f, k - 1)>>

\* The cell indices the Prints have written.
Written(out, f) ==
    {i \in DOMAIN f.cells :
        \E k \in 1..Len(out) :
            /\ i >= out[k].y * f.width + out[k].x
            /\ i < out[k].y * f.width + out[k].x + Len(out[k].cells)}

\* The snapshot is missing or has other dimensions than f.
SnapshotUnusable(tm, f) ==
    \/ ~tm.last.some
    \/ tm.last.width # f.width
    \/ tm.last.height # f.height

\* C10 as stated: a draw is a full redraw exactly when the snapshot is
\* missing or has other dimensions, the whole-frame-dirty flag is set, or
\* more than a third of the cells are dirty; any other draw writes dirty
\* cells only.
C10_FullWhenOverThird ==
    [][op'.name = "draw" =>
           /\ FullOutput(term'.out, frame) <=>
                  \/ SnapshotUnusable(term, frame)
                  \/ Frame_is_dirty_all(frame)
                  \/ 3 * Len(Frame_dirty_indices(frame)) >
                         frame.width * frame.height
           /\ ~FullOutput(term'.out, frame) =>
                  Written(term'.out, frame) \subseteq DirtySet(frame)]_vars

\* C10, amended: a draw is a full redraw exactly when the snapshot is
\* missing or has other dimensions, the whole-frame-dirty flag is set, or
\* the dirty cells are at least a third of the cells, the third rounded
\* down (always, then, in a frame of one or two cells); any other draw
\* writes dirty cells only.
C10_FullWhenThird ==
    [][op'.name = "draw" =>
           /\ FullOutput(term'.out, frame) <=>
                  \/ SnapshotUnusable(term, frame)
                  \/ Frame_is_dirty_all(frame)
                  \/ Len(Frame_dirty_indices(frame)) >=
                         (frame.width * frame.height) \div 3
           /\ ~FullOutput(term'.out, frame) =>
                  Written(term'.out, frame) \subseteq DirtySet(frame)]_vars

\* An incremental draw has written a cell.
C10_Witness ==
    /\ op.name = "draw"
    /\ term.out # << >>
    /\ ~FullOutput(term.out, frame)

(***************************************************************************)
(* SpecRuns: a Terminal drawing a frame of three rows of three cells that  *)
(* set calls change between the draws, in the first row and at the start   *)
(* of the second: up to two dirty cells are drawn incrementally.           *)
(***************************************************************************)
RunShape == <<3, 3>>
MaxRunCalls == 6

InitRuns ==
    /\ frame = Frame_new(RunShape[1], RunShape[2], None)
    /\ term = Terminal_new
    /\ snap = << >>
    /\ wr = {}
    /\ cbg = None
    /\ op = NoOp
    /\ cloud = Cloud_new("Mono", FALSE, "Random", "Off", FALSE, TRUE, "Green", 0)
    /\ now = 0
    /\ tally = NoTally
    /\ main = NoMain

RunCalled(name) ==
    /\ tally.calls < MaxRunCalls
    /\ tally' = [tally EXCEPT !.calls = @ + 1]
    /\ op' = Call(name, 0, 0, None)
    /\ UNCHANGED <<wr, cbg, cloud, now, main>>

\* A glyph with the attributes of a blank cell.
GlyphPlain == [ch |-> "x", fg |-> None, bg |-> None, bold |-> FALSE]

\* The cells the caller sets (x, y): the first row and the cell after it.
RunCells == {<<0, 0>>, <<1, 0>>, <<2, 0>>, <<0, 1>>}

RunSet ==
    \E xy \in RunCells, c \in {GlyphX, GlyphPlain, blank_with_bg(None)} :
        /\ frame' = Frame_set(frame, xy[1], xy[2], c)
        /\ RunCalled("set")
        /\ UNCHANGED <<term, snap>>

\* term.draw(&mut frame); snap keeps the dirty list the draw was given.
RunDraw ==
    /\ term' = Terminal_draw(term, frame).term
    /\ frame' = Terminal_draw(term, frame).frame
    /\ snap' = Frame_dirty_indices(frame)
    /\ RunCalled("draw")

NextRuns == RunSet \/ RunDraw

SpecRuns == InitRuns /\ [][NextRuns]_vars

\* The step is a draw that takes the incremental path.
IncrementalDraw == op'.name = "draw" /\ ~do_full_redraw(term, frame)

\* The dirty cell i of f has the value the snapshot of tm holds for it.
Unchanged(tm, f, i) == tm.last.cells[i] = Frame_cell_at_index(f, i)

\* The cell indices that the Print p covers.
Covered(p, f) ==
    (p.y * f.width + p.x) .. (p.y * f.width + p.x + Len(p.cells) - 1)

SameAttrs(a, b) == a.fg = b.fg /\ a.bg = b.bg /\ a.bold = b.bold

\* C11: in the incremental path of Terminal::draw no Print covers a dirty
\* cell whose effective value equals the snapshot's value for it, neither as
\* the first cell of a run nor further inside one.
C11_UnchangedNotWritten ==
    [][IncrementalDraw =>
           \A i \in DirtySet(frame) :
               Unchanged(term, frame, i) =>
                   \A k \in 1..Len(term'.out) :
                       i \notin Covered(term'.out[k], frame)]_vars

\* An incremental draw has written a cell and has left out a dirty cell
\* whose value was the snapshot's.
C11_Witness ==
    /\ op.name = "draw"
    /\ term.out # << >>
    /\ ~FullOutput(term.out, frame)
    /\ \E k \in 1..Len(snap) : snap[k] \notin Written(term.out, frame)

\* The cell index i can continue to the right a run whose cells have the
\* attributes of cell0: it is in the same row as its left neighbour, dirty,
\* changed and of the same attributes.
Joins(tm, f, i, cell0) ==
    /\ i \in DOMAIN f.cells
    /\ i % f.width # 0
    /\ i \in DirtySet(f)
    /\ ~Unchanged(tm, f, i)
    /\ SameAttrs(Frame_cell_at_index(f, i), cell0)

\* C12: in the incremental path of Terminal::draw every Print is a run of
\* cells of one row at consecutive columns, all dirty and changed since the
\* last physical write, all of the same foreground, background and bold;
\* each run is maximal (the cell before it and the cell after it cannot
\* join it); and every changed dirty cell is written exactly once.
C12_MaximalRuns ==
    [][IncrementalDraw =>
           /\ \A k \in 1..Len(term'.out) :
                  LET p == term'.out[k]
                      first == p.y * frame.width + p.x
                  IN  /\ Len(p.cells) >= 1
                      /\ p.x + Len(p.cells) <= frame.width
                      /\ p.y < frame.height
                      /\ \A i \in Covered(p, frame) :
                             /\ i \in DirtySet(frame)
                             /\ ~Unchanged(term, frame, i)
                             /\ p.cells[i - first + 1] =
                                    Frame_cell_at_index(frame, i)
                             /\ SameAttrs(p.cells[i - first + 1], p.cells[1])
                      /\ ~Joins(term, frame, first + Len(p.cells), p.cells[1])
                      /\ ~(/\ p.x > 0
                           /\ first - 1 \in DirtySet(frame)
                           /\ ~Unchanged(term, frame, first - 1)
                           /\ SameAttrs(Frame_cell_at_index(frame, first - 1),
                                        p.cells[1]))
           /\ \A i \in DirtySet(frame) :
                  ~Unchanged(term, frame, i) =>
                      Cardinality({k \in 1..Len(term'.out) :
                          i \in Covered(term'.out[k], frame)}) = 1]_vars

\* An incremental draw has printed a run of two cells.
C12_Witness ==
    /\ op.name = "draw"
    /\ ~FullOutput(term.out, frame)
    /\ \E k \in 1..Len(term.out) : Len(term.out[k].cells) = 2

(***************************************************************************)
(* SpecLoop: the main loop (main.rs:1017-1257) with its clock: the         *)
(* deadline, the re-initialisation, the events, the wait, the tick (rain,  *)
(* draw, perf pressure, next_frame), and the ways the run ends.            *)
(***************************************************************************)
MaxLoopTicks == 3
MaxLoopEvents == 2

\* --fps 5: a frame period of 200 ms, other than pause_period.
LoopArgs == [CloudArgs EXCEPT !.fps = 5, !.density = 100]

\* The size of the terminal (columns, lines).
LoopGrid == <<1, 2>>

\* --duration: none, or 0.1 s.
Deadlines == {NoTime, 100}

\* The time rain and draw take together, in ms.
Works == {10, 400}

\* poll_event(timeout) returns at the timeout, or when an event arrives, here
\* half-way.
Wakes(timeout) == {timeout}

Arrivals(timeout) == {timeout \div 2}

\* The keys: the quit keys, pause, and a key that is not bound.
Keys == {"Esc", "q", "p", "x"}

InitLoop ==
    \E screensaver \in BOOLEAN, end_time \in Deadlines :
        InitMain(LoopArgs, Main_new(screensaver, end_time, 0),
                 LoopGrid[1], LoopGrid[2])

\* Mutant: the pressure is not capped at 1.
perf_update_NoCap(p, work, period) ==
    IF work > period
    THEN p + (Clamp((work * 100) \div period - 100, 0, 200) * 25) \div 100
    ELSE Max(p - 2, 0)

\* perf_pressure after a tick whose work took `work` ms.
perf_update(p, work, period) ==
    IF work > period
    THEN Min(p + (Clamp((work * 100) \div period - 100, 0, 200) * 25) \div 100,
             100)
    ELSE Max(p - 2, 0)

\* Mutant: every tick is resynchronised to the clock.
next_frame_update_Resync(next_frame, period, t) == t + period

\* next_frame after a tick that ends at t.
next_frame_update(next_frame, period, t) ==
    IF t > next_frame + period THEN t + period ELSE next_frame + period

\* Drop for Terminal and restore_terminal_best_effort.
restore(m) == [m EXCEPT !.tty = Tty_restore, !.restored = TRUE]

\* Mutant: main ends without the Terminal being dropped.
main_return_NoDrop(m) == [m EXCEPT !.pc = "exited"]

\* Leaving main: the Terminal is dropped.
main_return(m) == [restore(m) EXCEPT !.pc = "exited"]

Running == main.pc # "exited"

\* Only the main loop acts in the step.
LoopOnly(name) ==
    /\ op' = Call(name, 0, 0, None)
    /\ UNCHANGED <<snap, wr, cbg, tally>>

\* Mutant: the deadline is never found to have passed.
deadline_passed_Never(m, t) == FALSE

\* end_time.is_some_and(|end| Instant::now() >= end).
deadline_passed(m, t) == m.end_time # NoTime /\ t >= m.end_time

\* The top of an iteration, the deadline passed: the loop ends.
LDeadline ==
    /\ main.pc = "top"
    /\ deadline_passed(main, now)
    /\ cloud' = [cloud EXCEPT !.raining = FALSE]
    /\ main' = main_return(main)
    /\ LoopOnly("deadline")
    /\ UNCHANGED <<frame, term, now>>

\* The terminal's modes after Terminal::new, with the step that fails, if
\* any: enable_raw_mode fails and nothing is undone; a later step fails and
\* all is undone.
Tty_new(tty, fail) ==
    IF fail = "none" THEN Tty_init
    ELSE IF fail = "raw" THEN tty
    ELSE Tty_restore

\* Mutant: the flag is read and left as it is.
term_reinit_swap_Load(m) == m

\* term_reinit.swap(false, SeqCst), the flag found set.
term_reinit_swap(m) == [m EXCEPT !.term_reinit = FALSE]

\* The top of an iteration, term_reinit set: the terminal is dropped and
\* created again; Terminal::new or size may fail, and main returns the
\* error.
LReinit ==
    /\ main.pc = "top"
    /\ ~deadline_passed(main, now)
    /\ main.term_reinit
    /\ \E fail \in {"none", "raw", "init", "size"} :
           IF fail = "none"
           THEN /\ main' = [term_reinit_swap(restore(main)) EXCEPT
                               !.pc = "events",
                               !.frame_period = frame_period(LoopArgs, cloud.pause),
                               !.tty = Tty_new(Tty_restore, fail),
                               !.pending_resize =
                                   [some |-> TRUE, w |-> LoopGrid[1], h |-> LoopGrid[2]],
                               !.next_frame = now]
                /\ term' = Terminal_new
                /\ cloud' = Cloud_force_draw_everything(cloud)
           ELSE /\ main' = IF fail = "size"
                           THEN main_return(
                                    [term_reinit_swap(restore(main)) EXCEPT
                                        !.tty = Tty_new(Tty_restore, "none")])
                           ELSE [term_reinit_swap(restore(main)) EXCEPT
                                    !.pc = "exited",
                                    !.tty = Tty_new(Tty_restore, fail)]
                /\ UNCHANGED <<term, cloud>>
    /\ LoopOnly("reinit")
    /\ UNCHANGED <<frame, now>>

\* The top of an iteration otherwise.
LEnter ==
    /\ main.pc = "top"
    /\ ~deadline_passed(main, now)
    /\ ~main.term_reinit
    /\ main' = [main EXCEPT
                   !.pc = "events",
                   !.frame_period = frame_period(LoopArgs, cloud.pause),
                   !.pending_resize = NoResize]
    /\ LoopOnly("top")
    /\ UNCHANGED <<frame, term, cloud, now>>

\* The timeout of the wait for an event.
wait_timeout(m, t) ==
    IF m.end_time # NoTime
    THEN Min(m.next_frame - t, m.end_time - t)
    ELSE m.next_frame - t

\* The time at which the next event is read: at once while the loop drains
\* the events, on its arrival while the loop waits.
ReadTimes ==
    IF main.pc = "wait"
    THEN {now + d : d \in Arrivals(wait_timeout(main, now))}
    ELSE {now}

AtEventRead ==
    /\ main.pc \in {"events", "wait"}
    /\ main.events < MaxLoopEvents
    /\ now' \in ReadTimes

\* An event is read: a key press.
LKey ==
    /\ AtEventRead
    /\ \E key \in Keys :
           IF main.screensaver
           THEN /\ cloud' = [cloud EXCEPT !.raining = FALSE]
                /\ main' = main_return([main EXCEPT !.quit = TRUE,
                                                    !.events = @ + 1])
           ELSE IF key \in {"Esc", "q"}
           THEN /\ cloud' = [cloud EXCEPT !.raining = FALSE]
                /\ main' = [main EXCEPT !.pc = "events", !.quit = TRUE,
                                        !.events = @ + 1]
           ELSE IF key = "p"
           THEN /\ cloud' = Cloud_toggle_pause(cloud, now')
                /\ main' = [main EXCEPT !.pc = "events", !.events = @ + 1]
           ELSE /\ cloud' = cloud
                /\ main' = [main EXCEPT !.pc = "events", !.events = @ + 1]
    /\ LoopOnly("key")
    /\ UNCHANGED <<frame, term>>

\* An event is read: a resize.
LResize ==
    /\ AtEventRead
    /\ main' = [main EXCEPT
                   !.pc = "events",
                   !.pending_resize =
                       [some |-> TRUE, w |-> LoopGrid[1], h |-> LoopGrid[2]],
                   !.events = @ + 1]
    /\ LoopOnly("resize")
    /\ UNCHANGED <<frame, term, cloud>>

\* Mutant: the loop goes on when raining is cleared.
events_done_KeepRaining(m, raining, t) ==
    IF \/ m.pending_resize.some
       \/ t >= m.next_frame
       \/ m.end_time # NoTime /\ t >= m.end_time
    THEN [m EXCEPT !.pc = "tick"]
    ELSE [m EXCEPT !.pc = "wait"]

\* No event is pending: the loop ends, or leaves for the tick, or waits.
events_done(m, raining, t) ==
    IF ~raining THEN main_return(m)
    ELSE IF \/ m.pending_resize.some
            \/ t >= m.next_frame
            \/ m.end_time # NoTime /\ t >= m.end_time
    THEN [m EXCEPT !.pc = "tick"]
    ELSE [m EXCEPT !.pc = "wait"]

LEventsDone ==
    /\ main.pc = "events"
    /\ main' = events_done(main, cloud.raining, now)
    /\ LoopOnly("events")
    /\ UNCHANGED <<frame, term, cloud, now>>

\* poll_event(timeout) returns with no event.
LWake ==
    /\ main.pc = "wait"
    /\ \E d \in Wakes(wait_timeout(main, now)) : now' = now + d
    /\ main' = [main EXCEPT !.pc = "events"]
    /\ LoopOnly("wait")
    /\ UNCHANGED <<frame, term, cloud>>

\* The cloud and the frame the tick hands to rain: after the pending
\* resize, set_perf_pressure and set_max_sim_delta.
tick_cloud(c, m, rnd) ==
    LET c1 == IF m.pending_resize.some
              THEN Cloud_force_draw_everything(
                       Cloud_reset(c, m.pending_resize.w, m.pending_resize.h,
                                   now, rnd))
              ELSE c
    IN  Cloud_set_max_sim_delta(
            Cloud_set_perf_pressure(c1, m.perf_pressure),
            sim_cap(m.frame_period, m.perf_pressure))

\* Mutant: the frame is not re-created at a resize.
tick_frame_Keep(c, f, m) == f

tick_frame(c, f, m) ==
    IF m.pending_resize.some
    THEN Frame_new(m.pending_resize.w, m.pending_resize.h, c.palette.bg)
    ELSE f

Late == main.end_time # NoTime /\ now >= main.end_time

\* The tick, up to the return of rain.
Tick(ticks) ==
    /\ main.pc = "tick"
    /\ main.rains < ticks
    /\ \E rst \in IF main.pending_resize.some
                  THEN ResetDraws(cloud, main.pending_resize.w,
                                  main.pending_resize.h)
                  ELSE {<< >>} :
           \E rnd \in RainDraws(tick_cloud(cloud, main, rst), now) :
               LET r == Cloud_rain(tick_cloud(cloud, main, rst),
                                   tick_frame(cloud, frame, main), now, rnd)
               IN  /\ cloud' = r.cloud
                   /\ frame' = r.frame
    /\ main' = [main EXCEPT !.pc = "draw", !.work_start = now,
                            !.rains = @ + 1,
                            !.late_rains = IF Late THEN @ + 1 ELSE @]
    /\ LoopOnly("rain")
    /\ UNCHANGED <<term, now>>

LTick == Tick(MaxLoopTicks)

\* The rest of the tick: the draw, the work time, perf_pressure and
\* next_frame.
Draw(works) ==
    /\ main.pc = "draw"
    /\ IF Frame_is_dirty_all(frame) \/ Frame_dirty_indices(frame) # << >>
       THEN /\ term' = Terminal_draw(term, frame).term
            /\ frame' = Terminal_draw(term, frame).frame
       ELSE UNCHANGED <<term, frame>>
    /\ \E work \in works :
           /\ now' = now + work
           /\ main' = [main EXCEPT
                  !.pc = "top",
                  !.perf_pressure = perf_update(@, work, main.frame_period),
                  !.next_frame =
                      next_frame_update(@, main.frame_period, now + work),
                  !.draws = IF Frame_is_dirty_all(frame)
                               \/ Frame_dirty_indices(frame) # << >>
                            THEN @ + 1 ELSE @,
                  !.late_draws = IF Late
                                    /\ (Frame_is_dirty_all(frame)
                                        \/ Frame_dirty_indices(frame) # << >>)
                                 THEN @ + 1 ELSE @]
    /\ LoopOnly("draw")
    /\ UNCHANGED cloud

LDraw == Draw(Works)

\* Ctrl-Z is read: the terminal is restored, term_reinit is set and the
\* process stops itself until it is continued.
LSuspend ==
    /\ AtEventRead
    /\ ~main.screensaver
    /\ main' = [restore(main) EXCEPT !.pc = "events", !.term_reinit = TRUE,
                                     !.events = @ + 1]
    /\ LoopOnly("suspend")
    /\ UNCHANGED <<frame, term, cloud>>

\* The thread of SIGTSTP and SIGCONT: SIGTSTP restores the terminal before
\* it stops the process, both set term_reinit.
LSigCont ==
    /\ Running
    /\ main.events < MaxLoopEvents
    /\ \E sig \in {"SIGTSTP", "SIGCONT"} :
           main' = [(IF sig = "SIGTSTP" THEN restore(main) ELSE main) EXCEPT
                       !.term_reinit = TRUE, !.events = @ + 1]
    /\ LoopOnly("sigcont")
    /\ UNCHANGED <<frame, term, cloud, now>>

\* The thread of SIGINT, SIGTERM and SIGHUP: restore_terminal_best_effort.
LSigRestore ==
    /\ Running
    /\ main.sig = "idle"
    /\ main' = [restore(main) EXCEPT !.sig = "restored"]
    /\ LoopOnly("sigterm")
    /\ UNCHANGED <<frame, term, cloud, now>>

\* The same thread: std::process::exit.
LSigExit ==
    /\ Running
    /\ main.sig = "restored"
    /\ main' = [main EXCEPT !.pc = "exited", !.sig = "exited"]
    /\ LoopOnly("sigexit")
    /\ UNCHANGED <<frame, term, cloud, now>>

\* A transport error (poll_event, read_event, draw): main returns it.
LError ==
    /\ main.pc \in {"events", "wait", "draw"}
    /\ main' = main_return(main)
    /\ LoopOnly("error")
    /\ UNCHANGED <<frame, term, cloud, now>>

\* A panic: the hook restores the terminal, the process ends.
LPanic ==
    /\ Running
    /\ main' = [restore(main) EXCEPT !.pc = "exited"]
    /\ LoopOnly("panic")
    /\ UNCHANGED <<frame, term, cloud, now>>

NextLoop ==
    \/ LDeadline
    \/ LReinit
    \/ LEnter
    \/ LKey
    \/ LResize
    \/ LEventsDone
    \/ LWake
    \/ LTick
    \/ LDraw
    \/ LSuspend
    \/ LSigCont

SpecLoop == InitLoop /\ [][NextLoop]_vars

(***************************************************************************)
(* SpecExit: the main loop with every way the run ends: the ends of the    *)
(* loop, a transport error, a panic, and SIGINT, SIGTERM or SIGHUP.        *)
(***************************************************************************)
MaxExitTicks == 1

ETick == Tick(MaxExitTicks)

NextExit ==
    \/ LDeadline
    \/ LReinit
    \/ LEnter
    \/ LKey
    \/ LResize
    \/ LEventsDone
    \/ LWake
    \/ ETick
    \/ LDraw
    \/ LSuspend
    \/ LSigCont
    \/ LSigRestore
    \/ LSigExit
    \/ LError
    \/ LPanic

SpecExit == InitLoop /\ [][NextExit]_vars

(***************************************************************************)
(* Claims about the pacing and the end of the loop (SpecLoop).             *)
(***************************************************************************)
\* The step is the end of a tick.
TickEnd == main.pc = "draw" /\ main'.pc = "top"

\* C15 as stated: next_frame never decreases, and a tick that did not
\* overrun advances it by exactly one frame period.
C15_NextFrameMonotonic ==
    [][/\ main'.next_frame >= main.next_frame
       /\ (TickEnd /\ now' <= main.next_frame + main.frame_period) =>
              main'.next_frame = main.next_frame + main.frame_period]_vars

\* C15, amended: next_frame never decreases from tick to tick, overshoot
\* resynchronisation included; a terminal re-initialisation sets it to the
\* current time, which may be earlier; and a tick that did not overrun
\* advances it by exactly one frame period.
C15_NextFrameMonotonicButReinit ==
    [][/\ op'.name # "reinit" => main'.next_frame >= main.next_frame
       /\ (op'.name = "reinit" /\ main'.pc = "events") =>
              main'.next_frame = now'
       /\ (TickEnd /\ now' <= main.next_frame + main.frame_period) =>
              main'.next_frame = main.next_frame + main.frame_period
       /\ (TickEnd /\ now' > main.next_frame + main.frame_period) =>
              main'.next_frame = now' + main.frame_period]_vars

\* A tick that did not overrun has ended with the clock off the due time.
C15_Witness ==
    /\ op.name = "draw"
    /\ main.rains >= 2
    /\ now < main.next_frame
    /\ now + main.frame_period # main.next_frame

\* C16: once a quit key has been read (Esc or q, or any key in screensaver
\* mode), no rain and no draw is run any more, and the loop ends when the
\* pending events have been read.
C16_QuitStopsTicks ==
    [][main.quit =>
           /\ main'.rains = main.rains
           /\ main'.draws = main.draws
           /\ main'.pc \in {"events", "exited"}
           /\ op'.name = "events" => main'.pc = "exited"]_vars

\* The loop has ended on a quit key after a tick, another event having been
\* read after the quit key.
C16_Witness ==
    /\ main.quit
    /\ ~main.screensaver
    /\ main.pc = "exited"
    /\ main.rains >= 1
    /\ main.events >= 2

\* C17 as stated: no rain and no draw starts at or after the deadline.
C17_NoTickAfterDeadline == main.late_rains = 0 /\ main.late_draws = 0

\* C17, amended: once the deadline has passed the loop ends at the top of
\* its next iteration; the tick that follows the wait the deadline ended is
\* still run, so at most one rain and at most one draw start at or after
\* the deadline.
C17_OneTickAfterDeadline ==
    [][/\ main'.late_rains <= 1
       /\ main'.late_draws <= 1
       /\ (main.pc = "top" /\ Late /\ main'.pc # "top") =>
              main'.pc = "exited"]_vars

\* The loop has ended at the deadline after a tick started at or after it.
C17_Witness ==
    /\ op.name = "deadline"
    /\ main.pc = "exited"
    /\ main.late_rains = 1

(***************************************************************************)
(* SpecPace: the main loop with ticks of little, of much and of very much  *)
(* work, and the keys.                                                     *)
(***************************************************************************)
MaxPaceTicks == 4

PaceWorks == {10, 400, 1000}

InitPace ==
    InitMain(LoopArgs, Main_new(FALSE, NoTime, 0), LoopGrid[1], LoopGrid[2])

PTick == Tick(MaxPaceTicks)

PDraw == Draw(PaceWorks)

NextPace == LEnter \/ LKey \/ LEventsDone \/ LWake \/ PTick \/ PDraw

SpecPace == InitPace /\ [][NextPace]_vars

\* C13: perf_pressure stays within [0, 1] (hundredths: 0..100), in main and
\* in the Cloud; a tick whose work exceeds the frame period raises it by
\* 0.25 times the overshoot ratio, the ratio clamped to [0, 2], capped at
\* 1; any other tick lowers it by 0.02, floored at 0.
C13_PressureTracksOvershoot ==
    [][/\ main'.perf_pressure \in 0..100
       /\ cloud'.perf_pressure \in 0..100
       /\ TickEnd =>
              LET work == now' - main.work_start
                  ratio == Clamp((work * 100) \div main.frame_period - 100,
                                 0, 200)
              IN  main'.perf_pressure =
                      IF work > main.frame_period
                      THEN Min(main.perf_pressure + (25 * ratio) \div 100, 100)
                      ELSE Max(main.perf_pressure - 2, 0)]_vars

\* The pressure has reached 1 and a tick has lowered it.
C13_Witness == main.perf_pressure = 98

\* The step is a rain under a perf pressure of 1.
PinnedRain == main.pc = "tick" /\ main'.pc = "draw" /\ main.perf_pressure = 100

\* The rows the heads of the droplets may fall in the rain of the step: the
\* simulation cap times chars_per_sec.
AdvanceCapped ==
    \A i \in DOMAIN cloud.droplets :
        (cloud.droplets[i].is_alive /\ i \in DOMAIN cloud'.droplets) =>
            (cloud'.droplets[i].head_cur_line
                 - cloud.droplets[i].head_cur_line) * 1000
                <= cloud'.max_sim_delta * cloud.droplets[i].chars_per_sec

\* C14 as stated: under a perf pressure of 1 the cap handed to
\* set_max_sim_delta is sim_min_s, half a frame period and at least 1 ms,
\* and no droplet advances more than the cap times chars_per_sec rows.
C14_CapIsMinimum ==
    [][PinnedRain =>
           /\ cloud'.max_sim_delta = Max(main.frame_period \div 2, 1)
           /\ AdvanceCapped]_vars

\* C14, amended: under a perf pressure of 1 the cap handed to
\* set_max_sim_delta is 0.9 frame periods and at most 0.5 s (above sim_min_s
\* unless the frame period is 1 s), and no droplet advances more than the
\* cap times chars_per_sec rows.
C14_CapIsNineTenths ==
    [][PinnedRain =>
           /\ cloud'.max_sim_delta = Min((9 * main.frame_period) \div 10, 500)
           /\ AdvanceCapped]_vars

\* A rain under a perf pressure of 1 has returned with a live droplet.
C14_Witness ==
    /\ op.name = "rain"
    /\ main.perf_pressure = 100
    /\ ~cloud.pause
    /\ \E i \in DOMAIN cloud.droplets : cloud.droplets[i].is_alive

MaxLifeFrames == 4

\* The same command line with --maxdpc 2.
LifeArgs == [CloudArgs EXCEPT !.max_dpc = 2]

\* The size of the terminal (columns, lines).
LifeGrid == <<1, 2>>

InitLife == InitMain(LifeArgs, NoMain, LifeGrid[1], LifeGrid[2])

DRain == Rain(MaxLifeFrames) /\ UNCHANGED tally

NextLife ==
    \/ DRain
    \/ CDrawn
    \/ CTogglePause
    \/ CReset

SpecLife == InitLife /\ [][NextLife]_vars

(***************************************************************************)
(* Claims about the life of a droplet (SpecLife).                          *)
(***************************************************************************)
\* The state of a droplet between two calls: a dead droplet is recycled by
\* the draw pass of the rain it died in (bound_col = u16::MAX), so that it
\* is seen inactive.
Phase(d) ==
    IF ~d.is_alive THEN "Inactive"
    ELSE IF d.head_stop_time = NoTime THEN "Falling"
    ELSE "Lingering"

\* Droplet b is droplet a, later in the same life.
SameLife(a, b) ==
    /\ b.bound_col = a.bound_col
    /\ b.end_line = a.end_line
    /\ b.length = a.length
    /\ b.time_to_linger = a.time_to_linger
    /\ b.head_cur_line >= a.head_cur_line
    /\ b.tail_cur_line >= a.tail_cur_line

\* Droplet b has died: its head is at the stop row, its linger time has
\* elapsed at time t, its tail is at the head.
Died(b, t) ==
    /\ b.head_cur_line = b.end_line
    /\ b.head_stop_time # NoTime
    /\ t - b.head_stop_time >= b.time_to_linger
    /\ b.tail_cur_line >= b.head_cur_line

\* Droplet b has just been filled and activated.
Activated(b, t) ==
    /\ b.head_cur_line = 0
    /\ b.tail_cur_line = 0
    /\ b.last_time = t
    /\ b.head_stop_time \in {NoTime, t}

\* C19: a droplet passes through its states in the order Inactive, Falling,
\* Lingering, Dead, Inactive: a live droplet stays the same droplet, never
\* goes back from lingering to falling, and ends only dead, its head at the
\* stop row, its linger time elapsed and its tail at the head; a slot that
\* holds no live droplet stays so until a rain's spawn fills and activates
\* it.  (A reset rebuilds the pool with inactive droplets.)
C19_DropletLifecycle ==
    [][IF op'.name = "reset"
       THEN \A i \in DOMAIN cloud'.droplets : Phase(cloud'.droplets[i]) = "Inactive"
       ELSE /\ DOMAIN cloud'.droplets = DOMAIN cloud.droplets
            /\ \A i \in DOMAIN cloud.droplets :
                   LET a == cloud.droplets[i]
                       b == cloud'.droplets[i]
                   IN  /\ (a.is_alive /\ b.is_alive) =>
                              /\ SameLife(a, b)
                              /\ Phase(a) = "Lingering" =>
                                     Phase(b) = "Lingering"
                       /\ (a.is_alive /\ ~b.is_alive) =>
                              /\ op'.name = "rain"
                              /\ Died(b, now')
                              /\ b.bound_col = U16Max
                       /\ (~a.is_alive /\ b.is_alive) =>
                              /\ op'.name = "rain"
                              /\ Activated(b, now')
                       /\ (~a.is_alive /\ ~b.is_alive) =>
                              b.head_cur_line = a.head_cur_line]_vars

\* A rain has returned with a droplet that has fallen, lingered and died,
\* and a droplet that falls.
C19_Witness ==
    /\ op.name = "rain"
    /\ \E i \in DOMAIN cloud.droplets :
           /\ ~cloud.droplets[i].is_alive
           /\ cloud.droplets[i].head_stop_time # NoTime
           /\ cloud.droplets[i].head_cur_line > 0
    /\ \E i \in DOMAIN cloud.droplets : Phase(cloud.droplets[i]) = "Falling"

(***************************************************************************)
(* SpecEdge: the cloud on the smallest grids, a message set: resizes to    *)
(* grids of no or one column and no or one line, and rains.                *)
(***************************************************************************)
MaxEdgeFrames == 3

\* The sizes a resize brings (columns, lines).
EdgeGrids == {<<0, 0>>, <<0, 1>>, <<1, 0>>, <<1, 1>>}

InitEdge == InitMain(CloudArgs, NoMain, LoopGrid[1], LoopGrid[2])

ERain == Rain(MaxEdgeFrames) /\ UNCHANGED tally

\* The main loop applies a pending resize: reset, a new Frame,
\* force_draw_everything.
EResize ==
    /\ AtEvents
    /\ \E g \in EdgeGrids :
           \E rnd \in ResetDraws(cloud, g[1], g[2]) :
               /\ cloud' = Cloud_force_draw_everything(
                               Cloud_reset(cloud, g[1], g[2], now, rnd))
               /\ frame' = Frame_new(g[1], g[2], cloud.palette.bg)
    /\ op' = Call("resize", 0, 0, None)
    /\ UNCHANGED <<snap, wr, cbg, now, term, tally, main>>

\* set_message_border and set_message, which main calls before the loop.
ESetMessage ==
    /\ op.name = "new"
    /\ \E border \in BOOLEAN :
           cloud' = Cloud_set_message([cloud EXCEPT !.message_border = border],
                                      SomeText(<< <<"h", "i">> >>))
    /\ op' = Call("set_message", 0, 0, None)
    /\ UNCHANGED <<frame, snap, wr, cbg, now, term, tally, main>>

NextEdge ==
    \/ ERain
    \/ CDrawn
    \/ EResize
    \/ ESetMessage

SpecEdge == InitEdge /\ [][NextEdge]_vars

\* Every Uniform of the cloud has a range that is not empty
\* (Uniform::new_inclusive fails otherwise).
RangesValid(c) ==
    \A r \in {c.rand_line, c.rand_len, c.rand_col, c.rand_cpidx,
              c.rand_glitch_ms, c.rand_linger_ms} : r.lo <= r.hi

\* The grid is narrower or shorter than the message box's minimum size.
TooSmall(c) ==
    LET border == IF c.message_border THEN 1 ELSE 0
    IN  c.cols < 2 * border + 4 \/ c.lines < 2 * border + 2

\* The glyphs of the message box.
MessageGlyphs == {"h", "i", "+", "-", "|"}

\* C21: on a grid of one column and one line, and on every grid smaller
\* than the message box's minimum size, reset and rain complete: every
\* Uniform has a valid range, every live droplet is bound to a column of
\* the grid with its head and tail on lines of the grid, the overlay is
\* empty and the frame shows no glyph of the message.
C21_SmallGridNeverFails ==
    (cloud.message_text.some /\ TooSmall(cloud)) =>
        /\ RangesValid(cloud)
        /\ cloud.message = << >>
        /\ \A i \in DOMAIN cloud.droplets :
               cloud.droplets[i].is_alive =>
                   /\ cloud.droplets[i].bound_col \in DOMAIN cloud.col_stat
                   /\ cloud.droplets[i].head_cur_line <= SatSub(cloud.lines, 1)
                   /\ cloud.droplets[i].tail_cur_line
                          <= cloud.droplets[i].head_cur_line
        /\ \A i \in 0..(frame.width * frame.height - 1) :
               Frame_cell_at_index(frame, i).ch \notin MessageGlyphs

\* A rain on the grid of one column and one line, the message set, has
\* returned with a live droplet drawn.
C21_Witness ==
    /\ op.name = "rain"
    /\ cloud.cols = 1
    /\ cloud.lines = 1
    /\ cloud.message_text.some
    /\ \E i \in DOMAIN cloud.droplets : cloud.droplets[i].is_alive
    /\ Frame_cell_at_index(frame, 0).ch # " "

\* C22 as stated: on a grid of no column or of no line no droplet is ever
\* alive.
C22_ZeroAreaNoDroplets ==
    (cloud.cols = 0 \/ cloud.lines = 0) =>
        \A i \in DOMAIN cloud.droplets : ~cloud.droplets[i].is_alive

(***************************************************************************)
(* The character set (charset.rs).  A Charset is its u32, a char is a      *)
(* string: a digit is itself, any other char is "U+" and its scalar value. *)
(***************************************************************************)
ENGLISH_LETTERS == 1
ENGLISH_DIGITS == 2
ENGLISH_PUNCTUATION == 4
KATAKANA == 8
GREEK == 16
CYRILLIC == 32
HEBREW == 128
BINARY == 256
HEX == 512
BRAILLE == 2048
RUNIC == 4096
SYMBOLS == 8192
ARROWS == 16384
BLOCKS == 32768
BOXDRAW == 65536
MINIMAL == 131072
DNA == 262144

\* self.0 & other.0
RECURSIVE BitAnd(_, _)
BitAnd(a, b) ==
    IF a = 0 \/ b = 0 THEN 0
    ELSE (a % 2) * (b % 2) + 2 * BitAnd(a \div 2, b \div 2)

Charset_contains(self, other) == BitAnd(self, other) # 0

\* char::from_u32: none for a surrogate and above 0x10FFFF.
char_from_u32(v) ==
    IF (v >= 55296 /\ v <= 57343) \/ v > 1114111 THEN None
    ELSE IF v >= 48 /\ v <= 57 THEN ToString(v - 48)
    ELSE "U+" \o ToString(v)

\* Whether char::from_u32 gave a char.
is_char(c) == c # None

\* for v in start..=end: the chars of the values in turn, the values without
\* a char skipped.
push_range(out, start, end) ==
    IF start > end THEN out
    ELSE out \o SelectSeq([i \in 1..(end - start + 1) |->
                              char_from_u32(start + i - 1)], is_char)

\* out.extend(str.chars()), the string given by its scalar values.
extend(out, vs) == out \o [i \in DOMAIN vs |-> char_from_u32(vs[i])]

\* The ranges build_chars pushes for a charset bit, and the strings.
CharsetRanges ==
    << <<BINARY, << <<48, 49>> >> >>,
       <<HEX, << <<48, 57>>, <<65, 70>> >> >>,
       <<ENGLISH_LETTERS, << <<65, 90>>, <<97, 122>> >> >>,
       <<ENGLISH_DIGITS, << <<48, 57>> >> >>,
       <<ENGLISH_PUNCTUATION,
         << <<33, 47>>, <<58, 64>>, <<91, 96>>, <<123, 126>> >> >>,
       <<KATAKANA, << <<65382, 65437>> >> >>,
       <<GREEK, << <<880, 1023>> >> >>,
       <<CYRILLIC, << <<1040, 1103>> >> >>,
       <<HEBREW, << <<1424, 1535>>, <<64285, 64335>> >> >>,
       <<BRAILLE, << <<10240, 10495>> >> >>,
       <<RUNIC, << <<5792, 5887>> >> >>,
       <<SYMBOLS,
         <<8734, 8721, 8747, 8730, 960, 8710, 937, 181, 955, 8776, 8800,
           8804, 8805, 215, 247, 177, 8706, 8711, 8712, 8713, 8745, 8746,
           8834, 8835, 8838, 8839, 8853, 8855>> >>,
       <<ARROWS,
         <<8592, 8594, 8593, 8595, 8596, 8597, 8656, 8658, 8657, 8659, 8660,
           8598, 8599, 8600, 8601>> >>,
       <<BLOCKS, << <<9600, 9631>> >> >>,
       <<BOXDRAW, << <<9472, 9599>> >> >>,
       <<MINIMAL,
         <<46, 58, 45, 61, 43, 42, 183, 8226, 9675, 9679, 9702, 9676, 9677,
           9673, 9678, 9671, 9670, 9633, 9632>> >>,
       <<DNA, <<65, 67, 71, 84, 97, 99, 103, 116>> >> >>

\* The ranges rs pushed in turn.
RECURSIVE push_ranges(_, _)
push_ranges(out, rs) ==
    IF rs = << >> THEN out
    ELSE push_ranges(push_range(out, Head(rs)[1], Head(rs)[2]), Tail(rs))

\* build_chars' tests of the charset from the k-th on.
RECURSIVE push_charset(_, _, _)
push_charset(out, charset, k) ==
    IF k > Len(CharsetRanges) THEN out
    ELSE LET bit == CharsetRanges[k][1]
             what == CharsetRanges[k][2]
         IN  push_charset(
                 IF ~Charset_contains(charset, bit) THEN out
                 ELSE IF bit \in {SYMBOLS, ARROWS, MINIMAL, DNA}
                      THEN extend(out, what)
                      ELSE push_ranges(out, what),
                 charset, k + 1)

\* Mutant: an empty list is returned as it is.
chars_or_default_Empty(out) == out

\* build_chars' end: '0' and '1' for an empty list.
chars_or_default(out) == IF out = << >> THEN <<"0", "1">> ELSE out

build_chars(charset, user_ranges, default_to_ascii) ==
    LET cs == IF charset = 0 /\ user_ranges = << >>
              THEN IF default_to_ascii THEN 7 ELSE 14
              ELSE charset
    IN  chars_or_default(push_ranges(push_charset(<< >>, cs, 1), user_ranges))

(***************************************************************************)
(* SpecChars: main builds the chars from a charset and the user's ranges   *)
(* and hands them to init_chars; init_chars also takes an empty list.      *)
(***************************************************************************)
\* The values of charset_from_str, NONE, every single bit, and a bit no
\* charset has.
Charsets ==
    {0, 3, 7, 11, 14, 8705, 8709, 8199, 64}
        \cup {CharsetRanges[k][1] : k \in DOMAIN CharsetRanges}

\* --chars: no range, '0'..'1', '1'..'0' (no char), 'A'..'A' and '1'..'0'.
UserRanges ==
    {<< >>, << <<48, 49>> >>, << <<49, 48>> >>, << <<65, 65>>, <<49, 48>> >>}

InitChars ==
    \E cs \in Charsets, ur \in UserRanges, d \in BOOLEAN :
        InitMain(CloudArgs,
                 [NoMain EXCEPT !.charset = cs, !.user_ranges = ur,
                                !.def_ascii = d],
                 LoopGrid[1], LoopGrid[2])

\* let chars = build_chars(charset, &user_ranges, def_ascii);
KBuildChars ==
    /\ op.name = "new"
    /\ main' = [main EXCEPT !.chars = build_chars(main.charset,
                                                  main.user_ranges,
                                                  main.def_ascii)]
    /\ op' = Call("build_chars", 0, 0, None)
    /\ UNCHANGED <<frame, snap, wr, cbg, cloud, now, term, tally>>

\* cloud.init_chars(chars), with the chars built or with an empty list; a
\* sample of the index is 0 or the last index.
KInitChars ==
    /\ op.name = "build_chars"
    /\ \E list \in {main.chars, << >>} :
           LET ends == IF list = << >> THEN << >>
                       ELSE <<list[1], list[Len(list)]>>
           IN  /\ \E pool \in Pools(ends, CharPoolLen),
                     gpool \in Pools(ends, GlitchPoolLen) :
                       cloud' = Cloud_init_chars(cloud, pool, gpool)
               /\ op' = Call("init_chars", Len(list), 0, None)
    /\ UNCHANGED <<frame, snap, wr, cbg, now, term, tally, main>>

NextChars == KBuildChars \/ KInitChars

SpecChars == InitChars /\ [][NextChars]_vars

\* The chars of a list.
CharsOf(list) == {list[i] : i \in DOMAIN list}

\* C23: the chars build_chars returns are never empty, they are '0', '1' for
\* BINARY without user ranges, and init_chars fills both pools, from the
\* chars it is given or, given none, from '0' and '1'.
C23_CharsNeverEmpty ==
    /\ op.name = "build_chars" =>
           /\ main.chars # << >>
           /\ (main.charset = BINARY /\ main.user_ranges = << >>) =>
                  main.chars = <<"0", "1">>
    /\ op.name = "init_chars" =>
           LET from == IF op.x = 0 THEN {"0", "1"} ELSE CharsOf(main.chars)
           IN  /\ Len(cloud.char_pool) = CharPoolLen
               /\ Len(cloud.glitch_pool) = GlitchPoolLen
               /\ CharsOf(cloud.char_pool) \subseteq from
               /\ CharsOf(cloud.glitch_pool) \subseteq from

\* build_chars has returned the fallback for a charset without chars and a
\* user range without chars.
C23_Witness ==
    /\ op.name = "build_chars"
    /\ main.charset = 64
    /\ main.user_ranges = << <<49, 48>> >>
    /\ main.chars = <<"0", "1">>

(***************************************************************************)
(* SpecPlace: the rain of SpecCloud on three columns, in full-width mode   *)
(* or not, at a rate of one and a half droplets a frame.                   *)
(***************************************************************************)
MaxPlaceFrames == 2

PlaceGrid == <<3, 2>>

InitPlace ==
    \E fw \in BOOLEAN :
        InitMain([CloudArgs EXCEPT !.fullwidth = fw, !.density = 100],
                 NoMain, PlaceGrid[1], PlaceGrid[2])

VRain == Rain(MaxPlaceFrames) /\ UNCHANGED tally

NextPlace == VRain \/ CDrawn

SpecPlace == InitPlace /\ [][NextPlace]_vars

\* The slots a rain step has filled: free before it, live after it.
Placed == {i \in DOMAIN cloud.droplets :
              ~cloud.droplets[i].is_alive /\ cloud'.droplets[i].is_alive}

\* C24: the droplets one rain spawns are in columns that were spawn-eligible
\* and under the cap before the call, one droplet a column (the spawn closes
\* the column), in even columns in full-width mode, and they are at most
\* floor(budget) and at most the pool.
C24_SpawnPlacement ==
    [][op'.name = "rain" /\ now' # now =>
           /\ \A i \in Placed :
                  LET col == cloud'.droplets[i].bound_col
                  IN  /\ col \in DOMAIN cloud.col_stat
                      /\ cloud.col_stat[col].can_spawn
                      /\ cloud.col_stat[col].num_droplets
                             < cloud.max_droplets_per_column
                      /\ cloud.full_width => col % 2 = 0
                      /\ \A j \in Placed \ {i} :
                             cloud'.droplets[j].bound_col # col
           /\ Cardinality(Placed) * FP
                  <= spawn_budget(loop_cloud, loop_now, spawn_scale(loop_cloud))
           /\ Cardinality(Placed) <= cloud.num_droplets]_vars

\* A full-width rain has spawned into column 2 while a droplet lives in
\* column 0: the sample of the column was 2 or 3.
C24_Witness ==
    /\ op.name = "rain"
    /\ cloud.full_width
    /\ \E i, j \in DOMAIN cloud.droplets :
           /\ cloud.droplets[i].is_alive
           /\ cloud.droplets[j].is_alive
           /\ cloud.droplets[i].bound_col = 0
           /\ cloud.droplets[j].bound_col = 2

\* The most a tick's rate adds to the spawn budget of cloud c: the rate of
\* max_sim_delta.
CappedRate(c) ==
    ((((c.max_sim_delta * c.droplets_per_sec) \div 1000) * spawn_scale(c))
        \div ScaleDen)

\* C25: a tick of the main loop sets a max_sim_delta above zero, and then
\* the elapsed time of the spawn budget is at most max_sim_delta (the
\* droplets spawned and the remainder carried on are within the remainder
\* before and the rate of max_sim_delta), and the time handed to the advance
\* of a droplet is at most its last update time plus max_sim_delta (so is
\* its last update time after the tick).
C25_SimDeltaCaps ==
    [][main.pc = "tick" /\ main'.pc = "draw" =>
           LET c == tick_cloud(cloud, main, << >>)
           IN  /\ c.max_sim_delta > 0
               /\ spawn_elapsed(c, now) <= c.max_sim_delta
               /\ Cardinality(Placed) * FP + cloud'.spawn_remainder
                      <= cloud.spawn_remainder + CappedRate(c)
               /\ \A i \in DOMAIN cloud.droplets :
                      cloud.droplets[i].is_alive =>
                          /\ adv_now(c, cloud.droplets[i], now)
                                 <= cloud.droplets[i].last_time
                                        + c.max_sim_delta
                          /\ cloud'.droplets[i].last_time
                                 <= cloud.droplets[i].last_time
                                        + c.max_sim_delta]_vars

\* A tick has come more than max_sim_delta after the one before: a live
\* droplet was advanced to a time a quarter of a second or more before the
\* clock (a droplet that is not advanced is within a row's time, 250 ms).
C25_Witness ==
    /\ op.name = "rain"
    /\ main.pc = "draw"
    /\ \E i \in DOMAIN cloud.droplets :
           /\ cloud.droplets[i].is_alive
           /\ cloud.droplets[i].last_time # NoTime
           /\ now - cloud.droplets[i].last_time >= 250

(***************************************************************************)
(* SpecGlitch: the main loop of SpecPace on a cloud that glitches, with    *)
(* the chars 0 and 1, on two columns of one row.                           *)
(***************************************************************************)
MaxGlitchTicks == 2

GlitchWorks == {10, 400, 1000}

GlitchGrid == <<2, 1>>

GlitchArgs == [LoopArgs EXCEPT !.noglitch = FALSE, !.chars = <<"0", "1">>]

InitGlitch ==
    InitMain(GlitchArgs, Main_new(FALSE, NoTime, 0), GlitchGrid[1],
             GlitchGrid[2])

GTick == Tick(MaxGlitchTicks)

GDraw == Draw(GlitchWorks)

NextGlitch == LEnter \/ LEventsDone \/ LWake \/ GTick \/ GDraw

SpecGlitch == InitGlitch /\ [][NextGlitch]_vars

\* A glyph of the pool was replaced, or the glitch pool index moved.
PoolGlitched ==
    \/ cloud'.char_pool # cloud.char_pool
    \/ cloud'.glitch_pool_idx # cloud.glitch_pool_idx

\* C26: a rain under a perf_pressure of 0.35 or more replaces no pool
\* glyph, leaves the glitch pool index and does not redraw every droplet
\* for the glitch; a rain replaces a glyph only when the cloud glitches,
\* the glitch is due and the pressure is below 0.35.
C26_GlitchSuppressed ==
    [][main.pc = "tick" /\ main'.pc = "draw" =>
           LET c == tick_cloud(cloud, main, << >>)
               due == Cloud_time_for_glitch(c, now)
           IN  /\ c.perf_pressure >= 35 =>
                      /\ ~PoolGlitched
                      /\ ~c.force_draw_everything =>
                             ~draw_everything(c, allow_glitch(c, due))
               /\ PoolGlitched =>
                      c.glitchy /\ now >= c.next_glitch_time
                          /\ c.perf_pressure < 35]_vars

\* A rain under pressure has left the pool alone although the glitch was
\* due (the window was set anew at this tick) and a live droplet has its
\* head on a cell of the glitch map, with another glyph in the glitch pool.
C26_Witness ==
    /\ op.name = "rain"
    /\ cloud.perf_pressure >= 35
    /\ cloud.last_glitch_time = now
    /\ now > 0
    /\ \E i \in DOMAIN cloud.droplets :
           LET d == cloud.droplets[i]
           IN  /\ d.is_alive
               /\ Cloud_is_glitched(cloud, d.head_cur_line, d.bound_col)
               /\ DrawCtx_get_char(cloud, d.head_cur_line, d.char_pool_idx)
                      # cloud.glitch_pool[1]

\* What the tick loop reads and writes of main's locals.
LoopLocals(m) ==
    <<m.pc, m.next_frame, m.perf_pressure, m.end_time, m.frame_period,
      m.pending_resize, m.work_start, m.quit>>

\* C27: the thread of SIGTSTP and SIGCONT sets term_reinit and leaves the
\* cloud, the frame, the Terminal and the loop's locals alone; the flag
\* stays set until the top of an iteration takes it, and an iteration that
\* finds it set clears it, has a new Terminal in its initial modes,
\* a resize pending, the cloud's full redraw requested and next_frame at
\* the clock, unless main returns with an error of Terminal::new or size.
C27_ReinitNotLost ==
    [][/\ op'.name = "sigcont" =>
              /\ main'.term_reinit
              /\ LoopLocals(main') = LoopLocals(main)
              /\ UNCHANGED <<cloud, frame, term, now>>
       /\ (main.term_reinit /\ ~main'.term_reinit) => main.pc = "top"
       /\ (main.pc = "top" /\ main.term_reinit /\ main'.pc # "exited"
               /\ main'.pc # "top") =>
              /\ ~main'.term_reinit
              /\ main'.pc = "events"
              /\ term' = Terminal_new
              /\ main'.tty = Tty_init
              /\ main'.pending_resize.some
              /\ cloud'.force_draw_everything
              /\ main'.next_frame = now]_vars

\* The thread has set the flag during an iteration and the next iteration
\* has taken it: a new Terminal, a resize pending.
C27_Witness ==
    /\ op.name = "reinit"
    /\ main.pc = "events"
    /\ main.events >= 1
    /\ ~main.term_reinit
    /\ main.rains >= 1
    /\ main.pending_resize.some
    /\ term = Terminal_new
    /\ cloud.force_draw_everything

(***************************************************************************)
(* SpecAttr: get_attr on the cells of a cloud of every bold mode, with and *)
(* without colours, distance shading and glitches, at the start, in the    *)
(* middle and at the end of the glitch window.                             *)
(***************************************************************************)
BoldModes == {"Off", "Random", "All"}

AttrTimes == {0, 150, 300}

InitAttr ==
    \E bm \in BoldModes, cm \in {"Mono", "Color16"},
       sm \in {"Random", "DistanceFromHead"}, ng \in BOOLEAN :
        InitMain([CloudArgs EXCEPT !.bold_mode = bm, !.color_mode = cm,
                                   !.shading_mode = sm, !.noglitch = ng,
                                   !.color_scheme = "Green2",
                                   !.chars = <<"0", "1">>],
                 NoMain, LoopGrid[1], LoopGrid[2])

\* ctx.get_attr(line, col, val, loc, now, head_put_line, length), as a
\* droplet's draw calls it.
AGetAttr ==
    \E line \in 0..(cloud.lines - 1), col \in 0..(cloud.cols - 1),
       val \in CharsOf(cloud.char_pool), loc \in {"Head", "Middle", "Tail"},
       t \in AttrTimes, head_put_line \in 0..(cloud.lines - 1),
       length \in 1..cloud.lines :
        /\ t >= now
        /\ head_put_line >= line
        /\ now' = t
        /\ op' = Call("get_attr", line, col,
                      [loc |-> loc,
                       attr |-> DrawCtx_get_attr(cloud, line, col, val, loc,
                                                 t, head_put_line, length)])
        /\ UNCHANGED <<frame, snap, wr, cbg, cloud, term, tally, main>>

NextAttr == AGetAttr

SpecAttr == InitAttr /\ [][NextAttr]_vars

\* The palette's first and last colours.
Darkest == cloud.palette.colors[1]
Brightest == cloud.palette.colors[Len(cloud.palette.colors)]

\* C28 as stated: a head cell has the last palette colour and is bold, a
\* tail cell has the first and is not bold, in every mode.
C28_HeadTailAttrs ==
    op.name = "get_attr" =>
        /\ op.arg.loc = "Head" =>
               op.arg.attr.fg = Brightest /\ op.arg.attr.bold
        /\ op.arg.loc = "Tail" =>
               op.arg.attr.fg = Darkest /\ ~op.arg.attr.bold

\* C28, amended: a head cell has the last palette colour and a tail cell
\* the first unless the colour mode is Mono, which gives no colour; a head
\* cell is bold unless the bold mode is Off, a tail cell is not bold unless
\* the bold mode is All.
C28_HeadTailAttrsByMode ==
    op.name = "get_attr" =>
        /\ op.arg.loc = "Head" =>
               /\ op.arg.attr.fg = IF cloud.color_mode = "Mono" THEN None
                                   ELSE Brightest
               /\ op.arg.attr.bold = (cloud.bold_mode # "Off")
        /\ op.arg.loc = "Tail" =>
               /\ op.arg.attr.fg = IF cloud.color_mode = "Mono" THEN None
                                   ELSE Darkest
               /\ op.arg.attr.bold = (cloud.bold_mode = "All")

\* The attributes of a tail cell on a cell of the glitch map while the
\* glitch is bright, in a cloud with colours and random bold: the glitch
\* alone would make it bold.
C28_Witness ==
    /\ op.name = "get_attr"
    /\ op.arg.loc = "Tail"
    /\ cloud.bold_mode = "Random"
    /\ cloud.color_mode = "Color16"
    /\ Cloud_is_glitched(cloud, op.x, op.y)
    /\ DrawCtx_is_bright(cloud, now)
    /\ op.arg.attr = [fg |-> Darkest, bold |-> FALSE]

\* The rows droplet d of cloud c shows.
ShownRows(c, d) ==
    {line \in 0..(c.lines - 1) :
        d.is_alive /\ line >= d.tail_cur_line /\ line <= d.head_cur_line}

\* C29: after a rain, the glyph a live droplet shows at a cell that the
\* glitch map does not flag is the glyph the pool held for it before the
\* rain, that is, without the glitch pass.
C29_GlitchOnlyFlagged ==
    [][main.pc = "tick" /\ main'.pc = "draw" =>
           \A i \in DOMAIN cloud'.droplets :
               LET d == cloud'.droplets[i]
               IN  \A line \in ShownRows(cloud', d) :
                       ~Cloud_is_glitched(cloud', line, d.bound_col) =>
                           DrawCtx_get_char(cloud', line, d.char_pool_idx)
                               = DrawCtx_get_char(cloud, line,
                                                  d.char_pool_idx)]_vars

(***************************************************************************)
(* SpecMsg: the rain of SpecCloud on four columns of two rows, the         *)
(* smallest grid that holds a message box without border, with the         *)
(* message set before the first rain, in every bold mode.                  *)
(***************************************************************************)
MaxMsgFrames == 2

MsgGrid == <<4, 2>>

InitMsg ==
    \E bm \in BoldModes :
        InitMain([CloudArgs EXCEPT !.bold_mode = bm, !.density = 25],
                 NoMain, MsgGrid[1], MsgGrid[2])

MRain == Rain(MaxMsgFrames) /\ UNCHANGED tally

NextMsg == MRain \/ CDrawn \/ ESetMessage \/ CTogglePause

SpecMsg == InitMsg /\ [][NextMsg]_vars

\* The attributes draw_message gives glyph val.
MessageCell(val) ==
    [ch |-> val,
     fg |-> IF val = " " \/ cloud.color_mode = "Mono" THEN None
            ELSE Brightest,
     bg |-> cloud.palette.bg,
     bold |-> val # " " /\ cloud.bold_mode # "Off"]

\* C30: after a rain that was not paused, with an overlay, the frame holds
\* at every position of the overlay the overlay's glyph with the message's
\* attributes.
C30_OverlayOnTop ==
    (op.name = "rain" /\ ~cloud.pause /\ cloud.message # << >>) =>
        \A k \in DOMAIN cloud.message :
            Frame_get(frame, cloud.message[k].col, cloud.message[k].line)
                = MessageCell(cloud.message[k].val)

\* A rain has drawn a live droplet's head at a position of the overlay and
\* the frame shows the overlay's blank there, and the text's glyph at its
\* place.
C30_Witness ==
    /\ op.name = "rain"
    /\ ~cloud.pause
    /\ \E k \in DOMAIN cloud.message : cloud.message[k].val = "h"
    /\ \E i \in DOMAIN cloud.droplets, k \in DOMAIN cloud.message :
           /\ cloud.droplets[i].is_alive
           /\ cloud.droplets[i].last_time = now
           /\ cloud.message[k].col = cloud.droplets[i].bound_col
           /\ cloud.message[k].line = cloud.droplets[i].head_cur_line
           /\ cloud.message[k].val = " "
           /\ Frame_get(frame, cloud.message[k].col, cloud.message[k].line).ch
                  = " "

\* The droplets a rain step has ended: live before it, not after it.
Ended == {i \in DOMAIN cloud.droplets :
             cloud.droplets[i].is_alive /\ ~cloud'.droplets[i].is_alive}

\* The droplets of the set s in column col before the step; those placed in
\* col by the step.
EndedIn(col) == {i \in Ended : cloud.droplets[i].bound_col = col}
PlacedIn(col) == {i \in Placed : cloud'.droplets[i].bound_col = col}

\* C31 as stated: at the end of a rain in which a droplet died, its
\* column's count is one less than before the rain, the column is
\* spawn-eligible, and no droplet was spawned into it in that rain.
C31_DeathFreesColumn ==
    [][op'.name = "rain" /\ now' # now =>
           \A i \in Ended :
               LET col == cloud.droplets[i].bound_col
               IN  /\ cloud'.col_stat[col].can_spawn
                   /\ cloud'.col_stat[col].num_droplets
                          = cloud.col_stat[col].num_droplets - 1
                   /\ PlacedIn(col) = {}]_vars

\* C31, amended: at the end of a rain in which droplets of a column died,
\* the column is spawn-eligible and its count is the count before the rain,
\* plus the droplet the spawn phase placed there, less one for each death;
\* a droplet placed in that column in the rain of the death was placed
\* before the death, the column being eligible and under its cap when the
\* rain began.
C31_DeathFreesColumnAfterSpawn ==
    [][op'.name = "rain" /\ now' # now =>
           \A col \in DOMAIN cloud.col_stat :
               EndedIn(col) # {} =>
                   /\ cloud'.col_stat[col].can_spawn
                   /\ cloud'.col_stat[col].num_droplets
                          = cloud.col_stat[col].num_droplets
                                + Cardinality(PlacedIn(col))
                                - Cardinality(EndedIn(col))
                   /\ Cardinality(PlacedIn(col)) <= 1
                   /\ PlacedIn(col) # {} =>
                          /\ cloud.col_stat[col].can_spawn
                          /\ cloud.col_stat[col].num_droplets
                                 < cloud.max_droplets_per_column]_vars

\* A rain has spawned a droplet and then ended another, which had stopped
\* at an earlier rain and was advanced at this one.
C31_Witness ==
    /\ op.name = "rain"
    /\ \E i, j \in DOMAIN cloud.droplets :
           /\ ~cloud.droplets[i].is_alive
           /\ cloud.droplets[i].last_time = now
           /\ cloud.droplets[i].head_stop_time # NoTime
           /\ cloud.droplets[i].head_stop_time < now
           /\ cloud.droplets[j].is_alive
           /\ Activated(cloud.droplets[j], now)

(***************************************************************************)
(* SpecMaps: rains on a 2x1 grid with glitches on or off, and between them *)
(* the keys that refill an overlay: space (reset), a color scheme key, and *)
(* the left and right arrows (set_glitch_pct).                             *)
(***************************************************************************)
MaxMapFrames == 1

MapGrid == <<2, 1>>

InitMaps ==
    \E ng \in BOOLEAN :
        InitMain([CloudArgs EXCEPT !.noglitch = ng, !.density = 100],
                 NoMain, MapGrid[1], MapGrid[2])

XRain == Rain(MaxMapFrames) /\ UNCHANGED tally

\* The left and right arrow keys: with glitches on, the glitch percentage
\* five points down or up, and the glitch map refilled.
CSetGlitchPct ==
    /\ AtEvents
    /\ cloud.glitchy
    /\ \E pct \in {Max(cloud.glitch_pct - 5, 0),
                   Min(cloud.glitch_pct + 5, 100)} :
           \E gm \in GlitchMaps([cloud EXCEPT !.glitch_pct = pct],
                                cloud.lines, cloud.cols) :
               cloud' = Cloud_set_glitch_pct(cloud, pct, gm)
    /\ op' = Call("set_glitch_pct", 0, 0, None)
    /\ UNCHANGED <<frame, snap, wr, cbg, now, term, tally, main>>

XSetGlitchPct == OneKey /\ CSetGlitchPct

NextMaps ==
    \/ XRain
    \/ CDrawn
    \/ RReset
    \/ RSetColorScheme
    \/ XSetGlitchPct

SpecMaps == InitMaps /\ [][NextMaps]_vars

\* The number of entries of an overlay.
Entries(map) == Cardinality(DOMAIN map)

DrawCalled ==
    /\ op'.name = "draw"
    /\ Frame_is_dirty_all(frame) \/ Frame_dirty_indices(frame) # << >>

\* No cell of f is marked dirty.
Clean(f) ==
    /\ ~Frame_is_dirty_all(f)
    /\ Frame_dirty_indices(f) = << >>
    /\ \A i \in DOMAIN f.dirty_map : ~f.dirty_map[i]

\* C33: after every Terminal::draw, full or incremental, the snapshot has
\* the frame's size and holds the frame's effective content at every cell,
\* and no cell of the frame is marked dirty.
C33_SnapshotIsFrame ==
    [][DrawCalled =>
           /\ term'.last.some
           /\ term'.last.width = frame'.width
           /\ term'.last.height = frame'.height
           /\ term'.last.cells = Effective(frame')
           /\ Effective(frame') = Effective(frame)
           /\ Clean(frame')]_vars

\* An incremental draw has printed fewer cells than the frame has and a
\* glyph among them.
C33_Witness ==
    /\ op.name = "draw"
    /\ term.out # << >>
    /\ Len(term.out) < frame.width * frame.height
    /\ \E k \in DOMAIN term.out : term.out[k].cells[1].ch # " "
    /\ term.last.cells = Effective(frame)

(***************************************************************************)
(* SpecCount: the cloud with up to two droplets in each of two columns,    *)
(* over frames enough for a droplet to die, the space key resetting the    *)
(* cloud between two frames.                                               *)
(***************************************************************************)
MaxCountFrames == 2

CountGrid == <<2, 2>>

InitCount == InitMain(LifeArgs, NoMain, CountGrid[1], CountGrid[2])

NRain == Rain(MaxCountFrames) /\ UNCHANGED tally

NextCount == NRain \/ CDrawn \/ RReset

SpecCount == InitCount /\ [][NextCount]_vars

\* The live droplets of c bound to column col.
AliveInColumn(c, col) ==
    {i \in DOMAIN c.droplets :
        c.droplets[i].is_alive /\ c.droplets[i].bound_col = col}

\* C34: after the reset that follows construction, after every reset and
\* after every rain, the count of each column is the number of live
\* droplets bound to it; a reset leaves no droplet alive, every count 0 and
\* every column spawn-eligible.
C34_CountsAreLiveDroplets ==
    /\ [](\A col \in DOMAIN cloud.col_stat :
              cloud.col_stat[col].num_droplets
                  = Cardinality(AliveInColumn(cloud, col)))
    /\ [][op'.name = "reset" =>
              /\ \A i \in DOMAIN cloud'.droplets :
                     ~cloud'.droplets[i].is_alive
              /\ \A col \in DOMAIN cloud'.col_stat :
                     /\ cloud'.col_stat[col].num_droplets = 0
                     /\ cloud'.col_stat[col].can_spawn]_vars

\* A rain has ended a droplet of a column that holds another, live one, and
\* the other column holds none.
C34_Witness ==
    /\ op.name = "rain"
    /\ \E i \in DOMAIN cloud.droplets :
           /\ ~cloud.droplets[i].is_alive
           /\ cloud.droplets[i].last_time = now
           /\ cloud.droplets[i].head_stop_time # NoTime
    /\ \E col, other \in DOMAIN cloud.col_stat :
           /\ cloud.col_stat[col].num_droplets = 1
           /\ AliveInColumn(cloud, col) # {}
           /\ cloud.col_stat[other].num_droplets = 0

\* A reset has emptied a cloud that held a live droplet.
ResetHasEmptied ==
    /\ op.name = "reset"
    /\ now > 0
    /\ \A i \in DOMAIN cloud.droplets : ~cloud.droplets[i].is_alive

\* The cloud after the spawn phase of the next rain, draws holding the
\* samples of the phase.
SpawnPhase(draws) ==
    Cloud_spawn_droplets(loop_cloud, loop_now, spawn_scale(loop_cloud), draws)

\* C35: whatever its samples, the spawn phase of a rain raises the count of
\* no column by more than one: it spawns at most one droplet into a column.
C35_OneSpawnPerColumn ==
    ~cloud.pause =>
        \A draws \in SpawnDraws(loop_cloud, loop_now, spawn_scale(loop_cloud)) :
            \A col \in DOMAIN cloud.col_stat :
                SpawnPhase(draws).col_stat[col].num_droplets
                    <= cloud.col_stat[col].num_droplets + 1

\* A rain has spawned two droplets, each into an empty column that takes
\* two: both columns are closed, one short of their cap.
C35_Witness ==
    /\ op.name = "rain"
    /\ cloud.max_droplets_per_column = 2
    /\ \E a, b \in DOMAIN cloud.col_stat :
           /\ a # b
           /\ \A col \in {a, b} :
                  /\ ~cloud.col_stat[col].can_spawn
                  /\ cloud.col_stat[col].num_droplets = 1
                  /\ \E i \in AliveInColumn(cloud, col) :
                         Activated(cloud.droplets[i], now)

(***************************************************************************)
(* SpecSize: the main loop with resize events of two sizes and the space   *)
(* key; snap keeps the size of the latest resize event read.               *)
(***************************************************************************)
MaxSizeTicks == 2

\* The sizes of the terminal (columns, lines).
Sizes == {<<1, 2>>, <<2, 1>>}

InitSize ==
    /\ InitMain(LoopArgs, Main_new(FALSE, NoTime, 0), 1, 2)
    /\ snap = << >>

\* An event is read: a resize to the size s.
ZResize ==
    /\ AtEventRead
    /\ \E s \in Sizes :
           /\ main' = [main EXCEPT
                          !.pc = "events",
                          !.pending_resize =
                              [some |-> TRUE, w |-> s[1], h |-> s[2]],
                          !.events = @ + 1]
           /\ snap' = s
    /\ op' = Call("resize", 0, 0, None)
    /\ UNCHANGED <<frame, term, cloud, wr, cbg, tally>>

\* An event is read: the space key.
ZSpace ==
    /\ AtEventRead
    /\ \E rnd \in ResetDraws(cloud, frame.width, frame.height) :
           cloud' = Cloud_force_draw_everything(
                        Cloud_reset(cloud, frame.width, frame.height, now',
                                    rnd))
    /\ main' = [main EXCEPT !.pc = "events", !.events = @ + 1]
    /\ LoopOnly("space")
    /\ UNCHANGED <<frame, term>>

ZTick == Tick(MaxSizeTicks)

ZDraw == Draw({10})

NextSize ==
    \/ LEnter
    \/ ZResize
    \/ ZSpace
    \/ LEventsDone
    \/ LWake
    \/ ZTick
    \/ ZDraw

SpecSize == InitSize /\ [][NextSize]_vars

\* C36: the frame always has the cloud's size, so that it has it at every
\* rain; the tick that follows resize events gives both the size of the
\* latest event; the space key resets the cloud to the frame's size.
C36_SizesAgree ==
    /\ [](/\ frame.width = cloud.cols
          /\ frame.height = cloud.lines)
    /\ [][/\ (main.pc = "tick" /\ main'.pc = "draw"
                  /\ main.pending_resize.some)
              => /\ <<cloud'.cols, cloud'.lines>> = snap
                 /\ <<frame'.width, frame'.height>> = snap
                 /\ Entries(frame'.cells) = snap[1] * snap[2]
          /\ op'.name = "space"
              => /\ cloud'.cols = frame.width
                 /\ cloud'.lines = frame.height]_vars

\* The first rain has followed two events, the latest a resize to another
\* size than the one the loop began with, and cloud and frame have it.
C36_Witness ==
    /\ main.pc = "draw"
    /\ main.pending_resize.some
    /\ main.events = 2
    /\ snap = <<2, 1>>
    /\ cloud.cols = 2
    /\ frame.width = 2
    /\ main.rains = 1

(***************************************************************************)
(* SpecStop: the main loop and the thread of SIGTSTP and SIGCONT, a step   *)
(* of the thread for each of its calls: restore_terminal_best_effort, the  *)
(* store of term_reinit, raise(SIGSTOP).  main.sig is the position of the  *)
(* thread; the process stopped, no thread takes a step until SIGCONT.      *)
(***************************************************************************)
MaxStopTicks == 2

InitStop ==
    InitMain(LoopArgs, Main_new(FALSE, NoTime, 0), LoopGrid[1], LoopGrid[2])

Awake == main.sig # "stopped"

PReinit == Awake /\ LReinit
PEnter == Awake /\ LEnter
PEventsDone == Awake /\ LEventsDone
PWake == Awake /\ LWake
PStopTick == Awake /\ Tick(MaxStopTicks)
PStopDraw == Awake /\ Draw({10})

\* The thread's step from position `from`: m is main after it.
Handler(from, m) ==
    /\ main.sig = from
    /\ main' = m
    /\ LoopOnly("signal")
    /\ UNCHANGED <<frame, term, cloud, now>>

\* SIGTSTP is delivered: restore_terminal_best_effort().
HRestore ==
    /\ Running
    /\ main.events < MaxLoopEvents
    /\ Handler("idle", [restore(main) EXCEPT !.sig = "tstp_restored",
                                             !.events = @ + 1])

\* term_reinit.store(true, SeqCst).
HStore ==
    /\ Running
    /\ Handler("tstp_restored",
               [main EXCEPT !.term_reinit = TRUE, !.sig = "tstp_stored"])

\* raise(SIGSTOP): the process stops.
HStop ==
    /\ Running
    /\ Handler("tstp_stored", [main EXCEPT !.sig = "stopped"])

\* SIGCONT: the process goes on, and the thread stores term_reinit.
HCont ==
    /\ Running
    /\ Handler("stopped", [main EXCEPT !.term_reinit = TRUE, !.sig = "idle"])

NextStop ==
    \/ PReinit
    \/ PEnter
    \/ PEventsDone
    \/ PWake
    \/ PStopTick
    \/ PStopDraw
    \/ HRestore
    \/ HStore
    \/ HStop
    \/ HCont

SpecStop == InitStop /\ [][NextStop]_vars

\* C37: whenever the thread of SIGTSTP has stopped the process, the
\* terminal is restored: raw mode off, the main screen, the cursor shown.
C37_StoppedRestored == main.sig = "stopped" => main.tty = Tty_restore

(***************************************************************************)
(* SpecPause: the cloud of SpecLife with the 'p' and space keys between    *)
(* the frames; snap keeps the time of the latest pause.                    *)
(***************************************************************************)
MaxPauseFrames == 4

InitPause == InitMain(LifeArgs, NoMain, LifeGrid[1], LifeGrid[2])

URain == Rain(MaxPauseFrames) /\ UNCHANGED tally

\* The 'p' key.
UTogglePause ==
    /\ AtEvents
    /\ cloud' = Cloud_toggle_pause(cloud, now)
    /\ snap' = IF cloud.pause THEN snap ELSE <<now>>
    /\ op' = Call("toggle_pause", 0, 0, None)
    /\ UNCHANGED <<frame, wr, cbg, now, term, tally, main>>

NextPause == URain \/ CDrawn \/ UTogglePause \/ RReset

SpecPause == InitPause /\ [][NextPause]_vars

\* The step unpauses the cloud; the time the pause has lasted.
Unpaused == op'.name = "toggle_pause" /\ cloud.pause /\ ~cloud'.pause

PausedFor == now - snap[1]

\* The time a clock that stood at `last` attributes to the call at time t.
Attributed(t, last) == SatSub(t, last)

GenShape == <<2, 1>>

InitGen ==
    /\ \E bg \in BgVals :
           /\ frame = Frame_new(GenShape[1], GenShape[2], bg)
           /\ cbg = bg
    /\ snap = << >>
    /\ wr = {}
    /\ op = NoOp
    /\ cloud = Cloud_new("Mono", FALSE, "Random", "Off", FALSE, TRUE, "Green", 0)
    /\ now = 0
    /\ term = Terminal_new
    /\ tally = NoTally
    /\ main = NoMain

NextGen == FSet \/ FClearWithBg

SpecGen == InitGen /\ [][NextGen]_vars

\* C39: the generation counter shows no stale cell, its wrap-around
\* included: a clear_with_bg leaves every cell reading as the new blank,
\* whatever was written before it; a set leaves its cell reading as written
\* and every other cell reading as before; the counter is never 0 and no
\* stamp is ahead of it.
C39_NoStaleCell ==
    /\ [](/\ frame.gen \in 1..(GenMod - 1)
          /\ \A i \in DOMAIN frame.cell_gen : frame.cell_gen[i] <= frame.gen)
    /\ [][/\ op'.name = "clear_with_bg"
              => \A i \in DOMAIN frame'.cells :
                     Frame_cell_at_index(frame', i) = blank_with_bg(cbg')
          /\ op'.name = "set"
              => \A i \in DOMAIN frame'.cells :
                     Frame_cell_at_index(frame', i)
                         = IF i = Frame_index(frame, op'.x, op'.y)
                           THEN op'.arg
                           ELSE Frame_cell_at_index(frame, i)]_vars

\* After a wrap-around of the counter a cell has been written: it reads as
\* written, and a cell that holds a glyph of before the wrap-around reads
\* blank.
C39_Witness ==
    /\ op.name = "set"
    /\ frame.gen = 1
    /\ OpIndex # NoIndex
    /\ op.arg # frame.blank
    /\ Frame_cell_at_index(frame, OpIndex) = op.arg
    /\ \E j \in DOMAIN frame.cells :
           /\ frame.cell_gen[j] = 0
           /\ frame.cells[j] # frame.blank
           /\ Frame_cell_at_index(frame, j) = frame.blank

(***************************************************************************)
(* SpecBox: reset_message on every grid of up to MaxBoxCols columns and    *)
(* MaxBoxLines lines, for a short text, an empty one and one that wraps,   *)
(* with and without border.                                                *)
(***************************************************************************)
MaxBoxCols == 9
MaxBoxLines == 6

\* The message texts, as lines of characters: "hi", "", "abcdefg\n\nxy".
BoxTexts ==
    {<< <<"h", "i">> >>,
     << << >> >>,
     << <<"a", "b", "c", "d", "e", "f", "g">>, << >>, <<"x", "y">> >>}

InitBox ==
    /\ \E cols \in 0..MaxBoxCols, lines \in 0..MaxBoxLines :
           cloud = [Cloud_new("Mono", FALSE, "Random", "Off", FALSE, TRUE,
                              "Green", 0)
                        EXCEPT !.cols = cols, !.lines = lines]
    /\ frame = Frame_new(0, 0, None)
    /\ term = Terminal_new
    /\ snap = << >>
    /\ wr = {}
    /\ cbg = None
    /\ op = NoOp
    /\ now = 0
    /\ tally = NoTally
    /\ main = NoMain

BSetMessage ==
    /\ \E text \in BoxTexts : cloud' = Cloud_set_message(cloud, SomeText(text))
    /\ op' = Call("set_message", 0, 0, None)
    /\ UNCHANGED <<frame, snap, wr, cbg, now, term, tally, main>>

BSetMessageBorder ==
    /\ \E on \in BOOLEAN : cloud' = Cloud_set_message_border(cloud, on)
    /\ op' = Call("set_message_border", 0, 0, None)
    /\ UNCHANGED <<frame, snap, wr, cbg, now, term, tally, main>>

NextBox == BSetMessage \/ BSetMessageBorder

SpecBox == InitBox /\ [][NextBox]_vars

\* C40: every entry of the message overlay is inside the grid.  The first
\* cell of the box is at (start_line, start_col): a difference below zero
\* in cols / 2 - box_w / 2 or lines / 2 - box_h / 2 would show as an entry
\* left of column 0 or above line 0.
C40_BoxInsideGrid ==
    \A k \in DOMAIN cloud.message :
        /\ cloud.message[k].col \in 0..(cloud.cols - 1)
        /\ cloud.message[k].line \in 0..(cloud.lines - 1)

\* The smallest grid that takes a bordered message, 6 by 4: the box of a
\* text that wraps is a column wider and a line higher than the grid, it
\* starts at (0, 0) and its last column and last line are cut off.
C40_Witness ==
    /\ op.name = "set_message"
    /\ cloud.message_border
    /\ cloud.cols = 6
    /\ cloud.lines = 4
    /\ Len(cloud.message_text.lines) = 3
    /\ Len(cloud.message) = 24
    /\ cloud.message[1] = MsgChr(0, 0, "+")
    /\ \E k \in DOMAIN cloud.message : cloud.message[k].val = "a"

====
